---------------------------- MODULE Spec2Model ----------------------------
(***************************************************************************)
(* A model of SolRoute: the router's parallel quote fan-out and the        *)
(* pricing simulators of the protocol adapters (AMM-v4, CPMM, PumpAMM,     *)
(* DLMM).  Amounts are arbitrary-precision integers, as in the source      *)
(* (cosmossdk.io/math.Int, math/big.Int); TLC's own integers are 32 bits   *)
(* wide, so an amount is kept as a sign and a little-endian sequence of    *)
(* limbs and the arithmetic below is exact at every width.                 *)
(***************************************************************************)
EXTENDS Integers, Sequences, FiniteSets, TLC

(***************************************************************************)
(* Arbitrary-precision naturals: little-endian limbs in base 2^15, no      *)
(* leading zero limb, zero is the empty sequence.                          *)
(***************************************************************************)
LimbBase == 2^15

\* TRUE, and a has been evaluated: an operator below evaluates its operands
\* before it works on them, so that no evaluation nests inside another
Known(a) == a = a

\* limb i of a, zero beyond its length
Limb(a, i) == IF i >= 1 /\ i <= Len(a) THEN a[i] ELSE 0

\* a without its leading zero limbs
Norm(a) ==
    IF a = <<>> THEN <<>>
    ELSE IF a[Len(a)] # 0 THEN a
    ELSE IF \A i \in 1..Len(a) : a[i] = 0 THEN <<>>
    ELSE SubSeq(a, 1, CHOOSE i \in 1..Len(a) :
                          a[i] # 0 /\ \A j \in (i + 1)..Len(a) : a[j] = 0)

RECURSIVE FromInt(_)
FromInt(n) ==
    IF n = 0 THEN <<>>
    ELSE <<n % LimbBase>> \o FromInt(n \div LimbBase)

RECURSIVE ToInt(_)
ToInt(a) ==
    IF a = <<>> THEN 0
    ELSE a[1] + LimbBase * ToInt(Tail(a))

\* a number of at most two limbs is worked on as one model integer
Short(a) == Len(a) <= 2

Word(a) == Limb(a, 1) + LimbBase * Limb(a, 2)

\* the limbs of n, 0 <= n < 2^31
FromWord(n) ==
    IF n = 0 THEN <<>>
    ELSE IF n < LimbBase THEN <<n>>
    ELSE IF n < LimbBase * LimbBase THEN <<n % LimbBase, n \div LimbBase>>
    ELSE <<n % LimbBase, (n \div LimbBase) % LimbBase, n \div (LimbBase * LimbBase)>>

\* a number of at most four limbs is worked on limb by limb, a longer one
\* all limbs at once
Brief(a) == Len(a) <= 4

\* -1, 0 or 1 as a < b, a = b, a > b
RECURSIVE CmpFrom(_, _, _)
CmpFrom(a, b, i) ==
    IF i = 0 THEN 0
    ELSE IF a[i] < b[i] THEN -1
    ELSE IF a[i] > b[i] THEN 1
    ELSE CmpFrom(a, b, i - 1)

\* the same, by the highest limb that differs
CmpTop(a, b, i) == IF a[i] < b[i] THEN -1 ELSE 1

NCmp(a, b) ==
    IF ~(Known(a) /\ Known(b)) THEN 0
    ELSE IF Len(a) < Len(b) THEN -1
    ELSE IF Len(a) > Len(b) THEN 1
    ELSE IF Brief(a) THEN CmpFrom(a, b, Len(a))
    ELSE IF a = b THEN 0
    ELSE CmpTop(a, b, Len(a) - (CHOOSE d \in 0..(Len(a) - 1) :
                                    /\ a[Len(a) - d] # b[Len(a) - d]
                                    /\ \A j \in (Len(a) - d + 1)..Len(a) : a[j] = b[j]))

\* the carry into limb i of the limb sums s: the nearest lower limb that
\* does not pass a carry on makes one
CarryInto(s, i) ==
    /\ i > 1
    /\ \/ s[i - 1] >= LimbBase
       \/ /\ s[i - 1] = LimbBase - 1
          /\ \E j \in 1..(i - 2) :
                 s[j] >= LimbBase /\ \A k \in (j + 1)..(i - 2) : s[k] = LimbBase - 1

RECURSIVE AddCarry(_, _, _)
AddCarry(a, b, c) ==
    IF a = <<>> /\ b = <<>> THEN (IF c = 0 THEN <<>> ELSE <<c>>)
    ELSE LET x == IF a = <<>> THEN 0 ELSE a[1]
             y == IF b = <<>> THEN 0 ELSE b[1]
             s == x + y + c
         IN  <<s % LimbBase>> \o
             AddCarry(IF a = <<>> THEN <<>> ELSE Tail(a),
                      IF b = <<>> THEN <<>> ELSE Tail(b),
                      s \div LimbBase)

AddSums(s) ==
    IF ~Known(s) THEN <<>> ELSE
    Norm([i \in 1..(Len(s) + 1) |->
             (Limb(s, i) + (IF CarryInto(s, i) THEN 1 ELSE 0)) % LimbBase])

NAdd(a, b) ==
    IF ~(Known(a) /\ Known(b)) THEN <<>>
    ELSE IF Short(a) /\ Short(b) THEN FromWord(Word(a) + Word(b))
    ELSE IF Brief(a) /\ Brief(b) THEN AddCarry(a, b, 0) ELSE
    AddSums([i \in 1..(IF Len(a) > Len(b) THEN Len(a) ELSE Len(b)) |->
                Limb(a, i) + Limb(b, i)])

\* the borrow from limb i of the limb differences d
BorrowFrom(d, i) ==
    /\ i > 1
    /\ \/ d[i - 1] < 0
       \/ /\ d[i - 1] = 0
          /\ \E j \in 1..(i - 2) : d[j] < 0 /\ \A k \in (j + 1)..(i - 2) : d[k] = 0

RECURSIVE SubBorrow(_, _, _)
SubBorrow(a, b, c) ==
    IF a = <<>> THEN <<>>
    ELSE LET y == IF b = <<>> THEN 0 ELSE b[1]
             d == a[1] - y - c
         IN  <<IF d < 0 THEN d + LimbBase ELSE d>> \o
             SubBorrow(Tail(a), IF b = <<>> THEN <<>> ELSE Tail(b),
                       IF d < 0 THEN 1 ELSE 0)

SubDiffs(d) ==
    IF ~Known(d) THEN <<>> ELSE
    Norm([i \in 1..Len(d) |->
             (d[i] - (IF BorrowFrom(d, i) THEN 1 ELSE 0) + LimbBase) % LimbBase])

\* a - b for a >= b
NSub(a, b) ==
    IF ~(Known(a) /\ Known(b)) THEN <<>>
    ELSE IF Short(a) THEN FromWord(Word(a) - Word(b))
    ELSE IF Brief(a) THEN Norm(SubBorrow(a, b, 0)) ELSE
    SubDiffs([i \in 1..Len(a) |-> a[i] - Limb(b, i)])

RECURSIVE MulSmallCarry(_, _, _)
MulSmallCarry(a, k, c) ==
    IF a = <<>> THEN (IF c = 0 THEN <<>> ELSE <<c>>)
    ELSE LET p == a[1] * k + c
         IN  <<p % LimbBase>> \o MulSmallCarry(Tail(a), k, p \div LimbBase)

\* a * k for a limb-sized k (0 <= k < LimbBase): limb by limb, the low half
\* of a product plus the high half of the one below
NMulSmall(a, k) ==
    IF ~(Known(a) /\ Known(k)) THEN <<>>
    ELSE IF k = 0 THEN <<>>
    ELSE IF Brief(a) THEN MulSmallCarry(a, k, 0) ELSE
    AddSums([i \in 1..(Len(a) + 1) |->
                ((Limb(a, i) * k) % LimbBase) + ((Limb(a, i - 1) * k) \div LimbBase)])

\* what limb j of b puts into column k of a * b
Term(a, b, k, j) ==
    ((Limb(a, k - j + 1) * b[j]) % LimbBase) + ((Limb(a, k - j) * b[j]) \div LimbBase)

\* what the limbs lo..hi of b put into column k of a * b
RECURSIVE Column(_, _, _, _, _)
Column(a, b, k, lo, hi) ==
    IF lo > hi THEN 0
    ELSE IF lo = hi THEN Term(a, b, k, lo)
    ELSE IF lo + 1 = hi THEN Term(a, b, k, lo) + Term(a, b, k, hi)
    ELSE Column(a, b, k, lo, (lo + hi) \div 2)
         + Column(a, b, k, (lo + hi) \div 2 + 1, hi)

\* the number whose columns are c, each below 2^21
ColumnsSum(c) ==
    IF ~Known(c) THEN <<>> ELSE
    AddSums([k \in 1..Len(c) |-> (c[k] % LimbBase) + (Limb(c, k - 1) \div LimbBase)])

\* a * b: column k takes the limbs j of b with 0 <= k - j <= Len(a)
MulColumns(a, b) ==
    ColumnsSum([k \in 1..(Len(a) + Len(b) + 1) |->
                   Column(a, b, k, IF k - Len(a) > 1 THEN k - Len(a) ELSE 1,
                                   IF k < Len(b) THEN k ELSE Len(b))])

ShiftLimb(a) == IF a = <<>> THEN <<>> ELSE <<0>> \o a

\* a * b row by row, a row a limb of b
RECURSIVE MulRows(_, _)
MulRows(a, b) ==
    IF b = <<>> THEN <<>>
    ELSE NAdd(NMulSmall(a, b[1]), ShiftLimb(MulRows(a, Tail(b))))

NMul(a, b) ==
    IF ~(Known(a) /\ Known(b)) THEN <<>>
    ELSE IF a = <<>> \/ b = <<>> THEN <<>>
    ELSE IF Len(a) = 1 /\ Len(b) = 1 THEN FromWord(a[1] * b[1])
    ELSE IF Len(b) = 1 THEN NMulSmall(a, b[1])
    ELSE IF Len(a) = 1 THEN NMulSmall(b, a[1])
    ELSE IF Brief(a) /\ Brief(b) THEN MulRows(a, b)
    ELSE IF Len(a) < Len(b) THEN MulColumns(b, a)
    ELSE MulColumns(a, b)

\* the largest d with d * b <= r, for r < b * LimbBase and a divisor whose
\* top limb is at least LimbBase / 2: at most two below est, the quotient of
\* the top limbs
QDigitNear(r, b, est) ==
    IF NCmp(NMulSmall(b, est), r) <= 0 THEN est
    ELSE IF NCmp(NMulSmall(b, est - 1), r) <= 0 THEN est - 1
    ELSE est - 2

QDigitTop(r, b, top) ==
    QDigitNear(r, b, IF top \div b[Len(b)] > LimbBase - 1 THEN LimbBase - 1
                     ELSE top \div b[Len(b)])

QDigit(r, b) == QDigitTop(r, b, Limb(r, Len(b) + 1) * LimbBase + Limb(r, Len(b)))

\* one limb of a long division: the remainder r takes the limb in and
\* gives the digit d
DivPut(r, d, b, q) ==
    IF ~(Known(r) /\ Known(d)) THEN <<>> ELSE
    [r |-> NSub(r, NMulSmall(b, d)), q |-> <<d>> \o q]

DivTake(r, b, q) == DivPut(r, QDigit(r, b), b, q)

DivStep(limb, r, b, q) == DivTake(Norm(<<limb>> \o r), b, q)

\* the division over the limbs hi down to lo of a, one half of them after
\* the other
RECURSIVE DivFrom(_, _, _, _, _)
DivFrom(a, b, hi, lo, st) ==
    IF ~Known(st) THEN st
    ELSE IF hi = lo THEN DivStep(a[hi], st.r, b, st.q)
    ELSE DivFrom(a, b, (hi + lo) \div 2, lo,
                 DivFrom(a, b, hi, (hi + lo) \div 2 + 1, st))

DivScaled(a, b, m) ==
    Norm(DivFrom(a, b, m, 1, [r |-> SubSeq(a, m + 1, Len(a)), q |-> <<>>]).q)

DivAligned(a, b) ==
    IF ~(Known(a) /\ Known(b)) THEN <<>> ELSE
    DivScaled(a, b, Len(a) - Len(b) + 1)

\* the quotient of a by b, b # 0 and b <= a: long division of both scaled
\* to a divisor whose top limb is at least LimbBase / 2
Quotient(a, b) ==
    IF ~(Known(a) /\ Known(b)) THEN <<>> ELSE
    DivAligned(NMulSmall(a, LimbBase \div (b[Len(b)] + 1)),
               NMulSmall(b, LimbBase \div (b[Len(b)] + 1)))

QuoRem(a, b, q) ==
    IF ~Known(q) THEN <<>> ELSE
    [q |-> q, r |-> NSub(a, NMul(q, b))]

\* quotient and remainder of a by b, b # 0
NDivMod(a, b) ==
    IF ~(Known(a) /\ Known(b)) THEN <<>>
    ELSE IF Short(a) /\ Short(b)
         THEN [q |-> FromWord(Word(a) \div Word(b)), r |-> FromWord(Word(a) % Word(b))]
    ELSE IF NCmp(a, b) < 0 THEN [q |-> <<>>, r |-> a]
    ELSE QuoRem(a, b, Quotient(a, b))

NDiv(a, b) ==
    IF ~(Known(a) /\ Known(b)) THEN <<>>
    ELSE IF Short(a) /\ Short(b) THEN FromWord(Word(a) \div Word(b))
    ELSE IF NCmp(a, b) < 0 THEN <<>>
    ELSE Quotient(a, b)
NMod(a, b) == NDivMod(a, b).r

\* 2^n
NPow2(n) ==
    [i \in 1..(n \div 15 + 1) |-> IF i = n \div 15 + 1 THEN 2^(n % 15) ELSE 0]


(***************************************************************************)
(* Signed integers (math.Int, big.Int): a sign and a magnitude.  Zero is   *)
(* never negative.                                                         *)
(***************************************************************************)
MkInt(neg, mag) == [neg |-> neg /\ mag # <<>>, mag |-> mag]

ZeroInt == MkInt(FALSE, <<>>)

\* math.NewInt(n), for a model integer n
NewInt(n) == IF n < 0 THEN MkInt(TRUE, FromInt(-n)) ELSE MkInt(FALSE, FromInt(n))

IsZero(a) == a.mag = <<>>
IsNegative(a) == a.neg
IsPositive(a) == ~a.neg /\ a.mag # <<>>

Neg(a) == MkInt(~a.neg, a.mag)

Add(a, b) ==
    IF a.neg = b.neg THEN MkInt(a.neg, NAdd(a.mag, b.mag))
    ELSE IF NCmp(a.mag, b.mag) >= 0 THEN MkInt(a.neg, NSub(a.mag, b.mag))
    ELSE MkInt(b.neg, NSub(b.mag, a.mag))

Sub(a, b) == Add(a, Neg(b))

Mul(a, b) == MkInt(a.neg # b.neg, NMul(a.mag, b.mag))

\* big.Int.Quo: the quotient truncated toward zero; the caller excludes b = 0,
\* on which Go panics
Quo(a, b) == MkInt(a.neg # b.neg, NDiv(a.mag, b.mag))

\* -1, 0, 1
Cmp(a, b) ==
    IF a.neg /\ ~b.neg THEN -1
    ELSE IF ~a.neg /\ b.neg THEN 1
    ELSE IF a.neg THEN NCmp(b.mag, a.mag)
    ELSE NCmp(a.mag, b.mag)

LE(a, b) == Cmp(a, b) <= 0
LT(a, b) == Cmp(a, b) < 0

\* the model integer of a value that fits one
IntOf(a) == IF a.neg THEN -ToInt(a.mag) ELSE ToInt(a.mag)

(***************************************************************************)
(* A local bound once and used many times: v := ...; F(v).                 *)
(***************************************************************************)
With(v, F(_)) == F(v)

\* the same, v being evaluated before F is applied
Forced(v, F(_)) == IF v = v THEN F(v) ELSE F(v)

(***************************************************************************)
(* Machine words.  A u64 is a natural below 2^64; int64(u) reinterprets    *)
(* the same 64 bits as two's complement.                                   *)
(***************************************************************************)
WordBits == 64

Pow63 == NPow2(WordBits - 1)
Pow64 == NPow2(WordBits)
MaxU64 == NSub(Pow64, <<1>>)

\* math.NewIntFromUint64(u)
NewIntFromUint64(u) == MkInt(FALSE, u)

\* math.NewInt(int64(u)) for a uint64 u
NewIntFromInt64OfUint64(u) ==
    IF NCmp(u, Pow63) < 0 THEN MkInt(FALSE, u)
    ELSE MkInt(TRUE, NSub(Pow64, u))

(***************************************************************************)
(* The chain as one quote request sees it.  GetMultipleAccountsWithOpts    *)
(* on a pool's two vaults either fails or returns one entry per vault, an  *)
(* absent account being a null entry; the u64 balance is bytes [64..72] of *)
(* the token account.                                                      *)
(***************************************************************************)
RpcFailed(acc) == acc.err
BaseNil(acc) == acc.baseNil
QuoteNil(acc) == acc.quoteNil

NoError == "ok"
ErrBatch == "batch request failed"
ErrNilResult == "result is nil"
PanicDivZero == "panic: division by zero"

QuoteResult(pool, out, err) == [pool |-> pool, out |-> out, err |-> err]

(***************************************************************************)
(* Raydium AMM-v4 and CPMM: constant product, 25 bps fee.                  *)
(***************************************************************************)
LIQUIDITY_FEES_NUMERATOR == 25
LIQUIDITY_FEES_DENOMINATOR == 10000

\* AMMPool.Quote line 384, CPMMPool.Quote line 256: the swap fee
SwapFee(inputAmount) ==
    Quo(Mul(inputAmount, NewInt(LIQUIDITY_FEES_NUMERATOR)),
        NewInt(LIQUIDITY_FEES_DENOMINATOR))

\* the constant product with the fee left inside the input
ConstantProductOutNoFee(reserveIn, reserveOut, inputAmount) ==
    IF IsZero(inputAmount) THEN [out |-> ZeroInt, err |-> NoError]
    ELSE LET denominator == Add(reserveIn, inputAmount)
         IN  IF IsZero(denominator)
             THEN [out |-> ZeroInt, err |-> PanicDivZero]
             ELSE [out |-> Quo(Mul(reserveOut, inputAmount), denominator),
                   err |-> NoError]

\* AMMPool.Quote lines 374-393, CPMMPool.Quote lines 246-265: the output for
\* the oriented reserves
ConstantProductOut(reserveIn, reserveOut, inputAmount) ==
    IF IsZero(inputAmount) THEN [out |-> ZeroInt, err |-> NoError]
    ELSE LET feeRaw == SwapFee(inputAmount)
             amountInWithFee == Sub(inputAmount, feeRaw)
             denominator == Add(reserveIn, amountInWithFee)
         IN  IF IsZero(denominator)
             THEN [out |-> ZeroInt, err |-> PanicDivZero]
             ELSE [out |-> Quo(Mul(reserveOut, amountInWithFee), denominator),
                   err |-> NoError]

\* AMMPool.Quote
AMMPoolQuote(p, acc, inputMint, inputAmount) ==
    IF RpcFailed(acc) THEN QuoteResult(p, ZeroInt, ErrBatch)
    ELSE IF BaseNil(acc) THEN QuoteResult(p, ZeroInt, ErrNilResult)
    ELSE LET p1 == [p EXCEPT !.BaseAmount = NewIntFromUint64(acc.base)]
         IN
         IF QuoteNil(acc) THEN QuoteResult(p1, ZeroInt, ErrNilResult)
         ELSE LET p2 == [p1 EXCEPT !.QuoteAmount = NewIntFromUint64(acc.quote)]
                  p3 == [p2 EXCEPT
                           !.BaseReserve = Sub(p2.BaseAmount,
                               NewIntFromInt64OfUint64(p.BaseNeedTakePnl)),
                           !.QuoteReserve = Sub(p2.QuoteAmount,
                               NewIntFromInt64OfUint64(p.QuoteNeedTakePnl))]
                  swapped == inputMint = p.QuoteMint
                  reserveIn == IF swapped THEN p3.QuoteReserve ELSE p3.BaseReserve
                  reserveOut == IF swapped THEN p3.BaseReserve ELSE p3.QuoteReserve
                  r == ConstantProductOut(reserveIn, reserveOut, inputAmount)
              IN  QuoteResult(p3, r.out, r.err)

\* CPMMPool.Quote: the same steps over Token0/Token1
CPMMPoolQuote(p, acc, inputMint, inputAmount) ==
    IF RpcFailed(acc) THEN QuoteResult(p, ZeroInt, ErrBatch)
    ELSE IF BaseNil(acc) THEN QuoteResult(p, ZeroInt, ErrNilResult)
    ELSE LET p1 == [p EXCEPT !.BaseAmount = NewIntFromUint64(acc.base)]
         IN
         IF QuoteNil(acc) THEN QuoteResult(p1, ZeroInt, ErrNilResult)
         ELSE LET p2 == [p1 EXCEPT !.QuoteAmount = NewIntFromUint64(acc.quote)]
                  p3 == [p2 EXCEPT
                           !.BaseReserve = Sub(p2.BaseAmount,
                               NewIntFromInt64OfUint64(p.BaseNeedTakePnl)),
                           !.QuoteReserve = Sub(p2.QuoteAmount,
                               NewIntFromInt64OfUint64(p.QuoteNeedTakePnl))]
                  input == IF inputMint = p.Token1Mint THEN "quote" ELSE "base"
                  reserveIn == IF input = "quote" THEN p3.QuoteReserve ELSE p3.BaseReserve
                  reserveOut == IF input = "quote" THEN p3.BaseReserve ELSE p3.QuoteReserve
                  r == ConstantProductOut(reserveIn, reserveOut, inputAmount)
              IN  QuoteResult(p3, r.out, r.err)

(***************************************************************************)
(* PumpAMM: constant product, the fee taken by scaling the input by        *)
(* (1 - DefaultFeeRate) in a base-10 fixed point.                          *)
(***************************************************************************)
\* DefaultFeeRate = 0.00250, in units of 1/10000
DefaultFeeRateBps == 25
BaseDecimalInt == 1000000

\* int64(feeRate * float64(BaseDecimalInt)) with feeRate = 1 - DefaultFeeRate:
\* the product is a whole number for every power of ten from 10^4 up, and the
\* float64 product rounds to it
feeMultiplier == (BaseDecimalInt \div 10000) * (10000 - DefaultFeeRateBps)

\* PumpAMMPool.Quote
PumpAMMPoolQuote(p, acc, inputMint, inputAmount) ==
    IF RpcFailed(acc) THEN QuoteResult(p, ZeroInt, ErrBatch)
    ELSE IF BaseNil(acc) THEN QuoteResult(p, ZeroInt, ErrNilResult)
    ELSE LET p1 == [p EXCEPT !.BaseAmount = NewIntFromUint64(acc.base)]
         IN
         IF QuoteNil(acc) THEN QuoteResult(p1, ZeroInt, ErrNilResult)
         ELSE LET p2 == [p1 EXCEPT !.QuoteAmount = NewIntFromUint64(acc.quote)]
                  k == Mul(p2.BaseAmount, p2.QuoteAmount)
                  amountWithFee == Quo(Mul(inputAmount, NewInt(feeMultiplier)),
                                       NewInt(BaseDecimalInt))
              IN  IF inputMint = p.BaseMint
                  THEN LET newBase == Add(p2.BaseAmount, amountWithFee)
                       IN  IF IsZero(newBase)
                           THEN QuoteResult(p2, ZeroInt, PanicDivZero)
                           ELSE QuoteResult(p2, Sub(p2.QuoteAmount, Quo(k, newBase)),
                                            NoError)
                  ELSE LET newQuote == Add(p2.QuoteAmount, amountWithFee)
                       IN  IF IsZero(newQuote)
                           THEN QuoteResult(p2, ZeroInt, PanicDivZero)
                           ELSE QuoteResult(p2, Sub(p2.BaseAmount, Quo(k, newQuote)),
                                            NoError)

(***************************************************************************)
(* Meteora DLMM.  Naturals (u16, u32, u64, u128 fields and big.Int         *)
(* intermediates) are limb sequences; bin ids and array indices are model  *)
(* integers.                                                               *)
(***************************************************************************)
BasisPointMax == 10000
FeePrecision == 1000000000
MaxFeeRate == 100000000
MinBinID == -443636
MaxBinID == 443636
MaxBinPerArray == 70
BinArrayBitmapSize == 512
PairStatusEnabled == 0
PairTypePermission == 1
ActivationTypeSlot == 0
ActivationTypeTimestamp == 1

Pow32 == NPow2(32)
Pow128 == NPow2(128)

\* the low 64 bits: big.Int.Uint64, uint64 arithmetic
U64(n) == IF NCmp(n, Pow64) < 0 THEN n ELSE NMod(n, Pow64)
U64Add(a, b) == U64(NAdd(a, b))
U64Sub(a, b) == IF NCmp(a, b) >= 0 THEN NSub(a, b) ELSE NSub(NAdd(a, Pow64), b)
\* big.NewInt(int64(u)) and cosmosmath.NewInt(int64(u))
Int64OfU64(u) == NewIntFromInt64OfUint64(u)
NMin(a, b) == IF NCmp(a, b) <= 0 THEN a ELSE b
\* 10^n
RECURSIVE Pow10(_)
Pow10(n) == IF n = 0 THEN <<1>> ELSE NMulSmall(Pow10(n - 1), 10)

ErrDisabled == "pair is disabled"
ErrActivationType == "invalid activation type"
ErrNotActivated == "pair is not yet activated"
ErrExtensionNil == "bitmapExtension is nil"
ErrArrayNotFound == "active bin array not found"
ErrBinRange == "insufficient liquidity: bin id out of range"
ErrSwapFailed == "swap failed"

\* BinIDToBinArrayIndex: floor(binID / 70)
BinIDToBinArrayIndex(binID) ==
    IF binID >= 0 THEN binID \div MaxBinPerArray
    ELSE -((-binID + MaxBinPerArray - 1) \div MaxBinPerArray)

\* GetBinArrayLowerUpperBinID
LowerBinID(index) == index * MaxBinPerArray
UpperBinID(index) == index * MaxBinPerArray + MaxBinPerArray - 1

\* BitmapRange: the array indices the pool's own bitmap covers
MinBitmapID == -BinArrayBitmapSize
MaxBitmapID == BinArrayBitmapSize - 1

IsOverflowDefaultBinArrayBitmap(index) == index > MaxBitmapID \/ index < MinBitmapID

\* BinArray.IsBinIDWithinRange
IsBinIDWithinRange(binArray, activeID) ==
    activeID >= LowerBinID(binArray.index) /\ activeID <= UpperBinID(binArray.index)

\* Bin.IsEmpty(isX)
BinIsEmpty(bin, isX) == IF isX THEN bin.amountX = <<>> ELSE bin.amountY = <<>>

\* Bin.GetMaxAmountOut
GetMaxAmountOut(bin, swapForY) == IF swapForY THEN bin.amountY ELSE bin.amountX

\* Bin.GetMaxAmountIn: the input that buys the whole bin at its price, rounded up
GetMaxAmountIn(bin, price, swapForY) ==
    IF swapForY
    THEN NDiv(NAdd(NMul(bin.amountY, Pow64), NSub(price, <<1>>)), price)
    ELSE NDiv(NAdd(NMul(bin.amountX, price), NSub(Pow64, <<1>>)), Pow64)

\* Bin.GetAmountOut: the constant-sum output at the bin's price, rounded down
GetAmountOut(amountIn, price, swapForY) ==
    IF swapForY
    THEN NDiv(NMul(price, amountIn), Pow64)
    ELSE NDiv(NMul(amountIn, Pow64), price)

\* MeteoraDlmmPool.GetBaseFee
GetBaseFee(pool) ==
    With(NMul(NMulSmall(NMul(pool.parameters.baseFactor, pool.binStep), 10),
              Pow10(pool.parameters.baseFeePowerFactor)), LAMBDA result :
        IF NCmp(result, Pow128) >= 0
        THEN [fee |-> <<>>, err |-> "result exceeds uint128 range"]
        ELSE [fee |-> result, err |-> NoError])

\* MeteoraDlmmPool.ComputeVariableFee
ComputeVariableFee(pool, volatilityAccumulator) ==
    IF pool.parameters.variableFeeControl = <<>> THEN [fee |-> <<>>, err |-> NoError]
    ELSE With(NMul(volatilityAccumulator, pool.binStep), LAMBDA squareVfaBin :
             IF squareVfaBin = <<>> /\ volatilityAccumulator = <<>> /\ pool.binStep = <<>>
             THEN [fee |-> <<>>, err |-> "multiplication overflow"]
             ELSE LET vFee == NMul(pool.parameters.variableFeeControl,
                                   NMul(squareVfaBin, squareVfaBin))
                      scaledVFee == NAdd(vFee, NSub(Pow10(11), <<1>>))
                  IN  [fee |-> NDiv(scaledVFee, Pow10(11)), err |-> NoError])

\* MeteoraDlmmPool.GetVariableFee
GetVariableFee(pool) == ComputeVariableFee(pool, pool.vParameters.volatilityAccumulator)

\* MeteoraDlmmPool.GetTotalFee
GetTotalFee(pool) ==
    With(GetBaseFee(pool), LAMBDA baseFee :
    With(GetVariableFee(pool), LAMBDA variableFee :
        IF baseFee.err # NoError THEN baseFee
        ELSE IF variableFee.err # NoError THEN variableFee
        ELSE [fee |-> NMin(NAdd(baseFee.fee, variableFee.fee), FromInt(MaxFeeRate)),
              err |-> NoError]))

\* MeteoraDlmmPool.ComputeFee: the fee on top of a net amount, rounded up
ComputeFee(pool, amount) ==
    With(GetTotalFee(pool), LAMBDA totalFeeRate :
        IF totalFeeRate.err # NoError THEN totalFeeRate
        ELSE IF NCmp(FromInt(FeePrecision), totalFeeRate.fee) <= 0
        THEN [fee |-> <<>>, err |-> "denominator overflow or zero"]
        ELSE With(NSub(FromInt(FeePrecision), totalFeeRate.fee), LAMBDA denominator :
             With(NDiv(NSub(NAdd(NMul(amount, totalFeeRate.fee), denominator), <<1>>),
                       denominator), LAMBDA fee :
                 IF NCmp(fee, Pow64) >= 0
                 THEN [fee |-> <<>>, err |-> "fee exceeds uint64 range"]
                 ELSE [fee |-> fee, err |-> NoError])))

\* MeteoraDlmmPool.ComputeFeeFromAmount: the fee inside a gross amount, rounded up
ComputeFeeFromAmount(pool, amountWithFees) ==
    With(GetTotalFee(pool), LAMBDA totalFeeRate :
        IF totalFeeRate.err # NoError THEN totalFeeRate
        ELSE [fee |-> U64(NDiv(NAdd(NMul(amountWithFees, totalFeeRate.fee),
                                    FromInt(FeePrecision - 1)),
                               FromInt(FeePrecision))),
              err |-> NoError])

\* MeteoraDlmmPool.ComputeProtocolFee
ComputeProtocolFee(pool, feeAmount) ==
    With(NDiv(NMul(feeAmount, pool.parameters.protocolShare), FromInt(BasisPointMax)),
         LAMBDA protocolFee :
        IF NCmp(protocolFee, Pow64) >= 0
        THEN [fee |-> <<>>, err |-> "protocol fee exceeds uint64 range"]
        ELSE [fee |-> protocolFee, err |-> NoError])

\* MeteoraDlmmPool.validateSwapActivation; now is time.Now().Unix()
validateSwapActivation(pool, now) ==
    LET currentTimestamp == now
        currentSlot == pool.Clock.Slot
    IN  IF pool.status # PairStatusEnabled THEN ErrDisabled
        ELSE IF pool.pairType = PairTypePermission
        THEN IF pool.activationType \notin {ActivationTypeSlot, ActivationTypeTimestamp}
             THEN ErrActivationType
             ELSE LET currentPoint == IF pool.activationType = ActivationTypeSlot
                                      THEN currentSlot ELSE currentTimestamp
                  IN  IF currentPoint < pool.activationPoint THEN ErrNotActivated
                      ELSE NoError
        ELSE NoError

\* MeteoraDlmmPool.UpdateReferences; the product is a uint32 product
UpdateReferences(pool) ==
    LET elapsed == pool.Clock.UnixTimestamp - pool.vParameters.lastUpdateTimestamp
    IN  IF elapsed >= pool.parameters.filterPeriod
        THEN IF elapsed < pool.parameters.decayPeriod
             THEN LET volatilityAccumulator ==
                          NMod(NMul(pool.vParameters.volatilityAccumulator,
                                    pool.parameters.reductionFactor), Pow32)
                      volatilityReference ==
                          NDiv(volatilityAccumulator, FromInt(BasisPointMax))
                  IN  [pool EXCEPT !.vParameters.indexReference = pool.activeId,
                                   !.vParameters.volatilityReference = volatilityReference]
             ELSE [pool EXCEPT !.vParameters.indexReference = pool.activeId,
                               !.vParameters.volatilityReference = <<>>]
        ELSE pool

\* MeteoraDlmmPool.UpdateVolatilityAccumulator
UpdateVolatilityAccumulator(pool) ==
    LET d == pool.vParameters.indexReference - pool.activeId
        deltaID == IF d < 0 THEN -d ELSE d
        deltaIdWithBasisPoint == NMul(FromInt(deltaID), FromInt(BasisPointMax))
        volatilityAccumulator ==
            NAdd(pool.vParameters.volatilityReference, deltaIdWithBasisPoint)
        minValue == NMin(volatilityAccumulator, pool.parameters.maxVolatilityAccumulator)
    IN  [pool EXCEPT !.vParameters.volatilityAccumulator = minValue]

\* MeteoraDlmmPool.Swap on one bin; the bin is the caller's copy
SwapFailed(bin, e) == [err |-> e, bin |-> bin, amountInWithFees |-> <<>>, amountOut |-> <<>>]

Swap(pool, bin, amountIn, swapForY) ==
    LET price == bin.price
        maxAmountOut == GetMaxAmountOut(bin, swapForY)
    IN
    With(GetMaxAmountIn(bin, price, swapForY), LAMBDA maxAmountIn0 :
    With(ComputeFee(pool, U64(maxAmountIn0)), LAMBDA maxFee :
    With(U64(Add(MkInt(FALSE, maxAmountIn0), Int64OfU64(maxFee.fee)).mag),
         LAMBDA maxAmountIn :
    With(NCmp(amountIn, maxAmountIn) > 0, LAMBDA whole :
    With(IF whole THEN maxFee ELSE ComputeFeeFromAmount(pool, amountIn), LAMBDA feeR :
    With(feeR.fee, LAMBDA fee :
    With(IF whole THEN maxAmountIn ELSE amountIn, LAMBDA amountInWithFees :
    With(IF whole THEN maxAmountOut
         ELSE NMin(U64(GetAmountOut(U64Sub(amountIn, fee), price, swapForY)),
                   maxAmountOut), LAMBDA amountOut :
    With(ComputeProtocolFee(pool, fee), LAMBDA protocolFee :
    With(U64Sub(amountInWithFees, fee), LAMBDA amountIntoBin :
        IF maxFee.err # NoError THEN SwapFailed(bin, maxFee.err)
        ELSE IF feeR.err # NoError THEN SwapFailed(bin, feeR.err)
        ELSE IF protocolFee.err # NoError THEN SwapFailed(bin, protocolFee.err)
        ELSE IF swapForY
        THEN IF NCmp(bin.amountY, amountOut) < 0
             THEN SwapFailed(bin, "insufficient Y amount")
             ELSE [err |-> NoError,
                   bin |-> [bin EXCEPT !.amountX = U64Add(bin.amountX, amountIntoBin),
                                       !.amountY = NSub(bin.amountY, amountOut)],
                   amountInWithFees |-> amountInWithFees, amountOut |-> amountOut]
        ELSE IF NCmp(bin.amountX, amountOut) < 0
             THEN SwapFailed(bin, "insufficient X amount")
             ELSE [err |-> NoError,
                   bin |-> [bin EXCEPT !.amountY = U64Add(bin.amountY, amountIntoBin),
                                       !.amountX = NSub(bin.amountX, amountOut)],
                   amountInWithFees |-> amountInWithFees, amountOut |-> amountOut]
    ))))))))))

\* MeteoraDlmmPool.AdvanceActiveBin (an int32 within [MinBinID, MaxBinID] is never
\* math.MinInt32 or math.MaxInt32 after the first advance, and ids start in range)
AdvanceActiveBin(pool, swapForY) ==
    LET nextActiveBinID == IF swapForY THEN pool.activeId - 1 ELSE pool.activeId + 1
    IN  IF nextActiveBinID < MinBinID \/ nextActiveBinID > MaxBinID
        THEN [pool |-> pool, err |-> ErrBinRange]
        ELSE [pool |-> [pool EXCEPT !.activeId = nextActiveBinID], err |-> NoError]

SetMax(S) == CHOOSE x \in S : \A y \in S : y <= x
SetMin(S) == CHOOSE x \in S : \A y \in S : x <= y

\* MeteoraDlmmPool.NextBinArrayIndexWithLiquidityInternal.  The 1024-bit bitmap
\* is the set of array indices whose bit (index + 512) is set: shifting left
\* by (1023 - offset) and counting leading zeros finds the nearest set index
\* at or below the start, shifting right by offset and counting trailing zeros
\* the nearest at or above it.
NextBinArrayIndexWithLiquidityInternal(pool, swapForY, startArrayIndex) ==
    IF swapForY
    THEN LET below == {i \in pool.binArrayBitmap : i <= startArrayIndex}
         IN  IF below = {} THEN [index |-> MinBitmapID - 1, hasLiquidity |-> FALSE]
             ELSE [index |-> SetMax(below), hasLiquidity |-> TRUE]
    ELSE LET above == {i \in pool.binArrayBitmap : i >= startArrayIndex}
         IN  IF above = {} THEN [index |-> MaxBitmapID + 1, hasLiquidity |-> FALSE]
             ELSE [index |-> SetMin(above), hasLiquidity |-> TRUE]

NoBinArray == [index |-> 0, bins |-> <<>>]

\* MeteoraDlmmPool.getCurrentActiveBinArray; the bitmap extension is never
\* attached (no assignment to pool.bitmapExtension exists), so it is nil
getCurrentActiveBinArray(pool, swapForY) ==
    LET startBinArrayIdx == BinIDToBinArrayIndex(pool.activeId)
    IN  IF IsOverflowDefaultBinArrayBitmap(startBinArrayIdx)
        THEN [binArray |-> NoBinArray, err |-> ErrExtensionNil]
        ELSE LET next == NextBinArrayIndexWithLiquidityInternal(pool, swapForY,
                                                                startBinArrayIdx)
                 binArrayIdx == IF next.hasLiquidity THEN next.index ELSE 0
             IN  IF binArrayIdx \in DOMAIN pool.BinArrays
                 THEN [binArray |-> pool.BinArrays[binArrayIdx], err |-> NoError]
                 ELSE [binArray |-> NoBinArray, err |-> ErrArrayNotFound]

\* BinArray.GetBinMut: the bin at index activeID - lowerBinID of the array
GetBinMut(binArray, activeID) == binArray.bins[activeID - LowerBinID(binArray.index) + 1]

(***************************************************************************)
(* MeteoraDlmmPool.Quote as the steps of one call.  w holds the call's     *)
(* locals (amountLeft, totalAmountOut, swapForY, activeBinArray) and where *)
(* it stands: "start" (lines 19-28), "outer" (the for at line 31),         *)
(* "inner" (one pass of the for at line 39), "done" (returned).            *)
(***************************************************************************)
NewWalk(inputMint, inputAmount) ==
    [pc |-> "start", inputMint |-> inputMint, inputAmount |-> inputAmount,
     swapForY |-> FALSE, amountLeft |-> ZeroInt, totalAmountOut |-> ZeroInt,
     activeBinArray |-> NoBinArray, out |-> ZeroInt, err |-> NoError]

Returned(w, out, err) ==
    [w EXCEPT !.pc = "done", !.out = out, !.err = err, !.activeBinArray = NoBinArray]

\* lines 19-28
DlmmQuoteStart(pool, now, w) ==
    LET p1 == [pool EXCEPT !.orgActiveId = pool.activeId]
        e == validateSwapActivation(p1, now)
    IN  IF e # NoError
        THEN [pool |-> p1, w |-> Returned(w, ZeroInt, e)]
        ELSE [pool |-> UpdateReferences(p1),
              w |-> [w EXCEPT !.pc = "outer", !.amountLeft = w.inputAmount,
                              !.swapForY = (w.inputMint = pool.TokenXMint)]]

\* lines 31-36 and 79-80
DlmmQuoteOuter(pool, w) ==
    IF ~IsPositive(w.amountLeft)
    THEN [pool |-> [pool EXCEPT !.activeId = pool.orgActiveId],
          w |-> Returned(w, w.totalAmountOut, NoError)]
    ELSE LET a == getCurrentActiveBinArray(pool, w.swapForY)
         IN  IF a.err # NoError
             THEN [pool |-> pool, w |-> Returned(w, ZeroInt, a.err)]
             ELSE [pool |-> pool,
                   w |-> [w EXCEPT !.pc = "inner", !.activeBinArray = a.binArray]]

\* lines 40-75: one pass of the inner loop
DlmmQuoteInner(pool, w) ==
    IF ~IsBinIDWithinRange(w.activeBinArray, pool.activeId) \/ IsZero(w.inputAmount)
    THEN LET adv == AdvanceActiveBin(pool, w.swapForY)
         IN  IF adv.err # NoError
             THEN [pool |-> pool, w |-> Returned(w, ZeroInt, adv.err)]
             ELSE [pool |-> adv.pool,
                   w |-> [w EXCEPT !.pc = "outer", !.activeBinArray = NoBinArray]]
    ELSE With(UpdateVolatilityAccumulator(pool), LAMBDA p1 :
         With(GetBinMut(w.activeBinArray, p1.activeId), LAMBDA activeBin :
         With(~BinIsEmpty(activeBin, ~w.swapForY), LAMBDA swaps :
         With(IF swaps THEN Swap(p1, activeBin, U64(w.amountLeft.mag), w.swapForY)
              ELSE SwapFailed(activeBin, NoError), LAMBDA swapResult :
             IF swaps /\ swapResult.err # NoError
             THEN [pool |-> p1, w |-> Returned(w, ZeroInt, ErrSwapFailed)]
             ELSE With(IF swaps
                       THEN [w EXCEPT
                               !.amountLeft = Sub(w.amountLeft,
                                   Int64OfU64(swapResult.amountInWithFees)),
                               !.totalAmountOut = Add(w.totalAmountOut,
                                   Int64OfU64(swapResult.amountOut)),
                               !.activeBinArray.bins[p1.activeId
                                   - LowerBinID(w.activeBinArray.index) + 1] =
                                   swapResult.bin]
                       ELSE w, LAMBDA w1 :
                  With(AdvanceActiveBin(p1, w.swapForY), LAMBDA adv :
                      IF adv.err # NoError
                      THEN [pool |-> p1, w |-> Returned(w1, ZeroInt, adv.err)]
                      ELSE [pool |-> adv.pool, w |-> w1]))))))

\* the next step of a call that has not returned
DlmmQuoteStep(pool, now, w) ==
    IF w.pc = "start" THEN DlmmQuoteStart(pool, now, w)
    ELSE IF w.pc = "outer" THEN DlmmQuoteOuter(pool, w)
    ELSE DlmmQuoteInner(pool, w)

\* a call run to its return with nothing else touching the pool
RECURSIVE DlmmQuoteRun(_, _)
DlmmQuoteRun(s, now) ==
    IF s.w.pc = "done" THEN s
    ELSE DlmmQuoteRun(DlmmQuoteStep(s.pool, now, s.w), now)

\* MeteoraDlmmPool.Quote
MeteoraDlmmPoolQuote(pool, now, inputMint, inputAmount) ==
    With(DlmmQuoteRun([pool |-> pool, w |-> NewWalk(inputMint, inputAmount)], now),
         LAMBDA r : QuoteResult(r.pool, r.w.out, r.w.err))

(***************************************************************************)
(* State.                                                                  *)
(***************************************************************************)
VARIABLES
    pools,      \* SimpleRouter.Pools: the pool records, shared by every request
    accounts,   \* per pool, what a fetch of its two vaults returns (the snapshot)
    now,        \* the wall clock, time.Now().Unix()
    calls,      \* the last two Quote calls made directly on pools[1], in order
    discovered, \* the pool records as discovery decoded them
    reqs,       \* per GetBestPool call: its arguments, its collector's locals, its return
    gos,        \* per call and pool: the quoting goroutine
    chans       \* per call: resultChan

\* the state of discovery
VARIABLES
    protocols,  \* SimpleRouter.Protocols: per adapter, what the chain holds for it
    query       \* the QueryAllPools call: its position, allPools, its return

\* the state of the RPC client
VARIABLES
    limiter,    \* Client.rateLimiter: the tokens in the bucket
    ctx,        \* the context the calls are made under
    rpcs        \* the calls made on the client, the latest last

\* the state of the simulators and decoders taken one call at a time
VARIABLES
    binWalk,    \* a MeteoraDlmmPool.Quote call: the pool record and the call's locals
    tickWalk,   \* a CLMMPool.swapCompute call: the pool and the loop's state
    roundTrip,  \* a tick, its sqrt price and the tick computed back from it
    decoding,   \* a Decode call: the decoder, the input's length, the outcome
    building    \* a BuildSwapInstructions call: the pool, the arguments, the return

baseVars == <<pools, accounts, now, calls, discovered, reqs, gos, chans>>
discVars == <<protocols, query>>
rpcVars == <<limiter, ctx, rpcs>>
simVars == <<binWalk, tickWalk, roundTrip, decoding, building>>
extVars == <<discVars, rpcVars, simVars>>

vars == <<baseVars, extVars>>
routerVars == <<discovered, reqs, gos, chans, extVars>>

\* before discovery and quoting: an empty registry, no call made
BaseIdle ==
    /\ pools = <<>>
    /\ accounts = <<>>
    /\ now = 0
    /\ calls = <<>>
    /\ discovered = <<>>
    /\ reqs = <<>>
    /\ gos = <<>>
    /\ chans = <<>>

\* outside discovery: no adapter is registered and no QueryAllPools call runs
DiscIdle ==
    /\ protocols = <<>>
    /\ query = [pc |-> "none"]

\* no RPC client in use
RpcIdle ==
    /\ limiter = 0
    /\ ctx = "live"
    /\ rpcs = <<>>

\* no simulator or decoder call taken apart
SimIdle ==
    /\ binWalk = [pc |-> "none"]
    /\ tickWalk = [pc |-> "none"]
    /\ roundTrip = [pc |-> "none"]
    /\ decoding = [pc |-> "none"]
    /\ building = [pc |-> "none"]

ExtIdle == DiscIdle /\ RpcIdle /\ SimIdle

MintA == "mintA"
MintB == "mintB"
Mints == {MintA, MintB}

(***************************************************************************)
(* The snapshots and inputs the model ranges over.                         *)
(***************************************************************************)
MaxSmall == 1
MaxNow == 1

Small == {FromInt(n) : n \in 0..MaxSmall}

\* pairs of u64 pending-PnL counters (base, quote), up to the largest u64
PnlSamples ==
    {<<<<>>, <<>>>>, <<FromInt(MaxSmall + 1), <<>>>>, <<<<>>, FromInt(MaxSmall + 1)>>,
     <<MaxU64, <<>>>>, <<<<>>, MaxU64>>}

\* input amounts
InputSamples == {NewInt(n) : n \in 0..MaxSmall} \cup {NewInt(1000), NewInt(1000000)}

Fetched(base, quote) ==
    [err |-> FALSE, baseNil |-> FALSE, quoteNil |-> FALSE, base |-> base, quote |-> quote]

\* what a fetch of the two vaults returns: u64 balances, or a failure
AccountSamples ==
    {Fetched(b, q) : b \in Small, q \in Small}
        \cup {Fetched(FromInt(1000), FromInt(1000)),
              Fetched(FromInt(1000000000), FromInt(2000000000))}
        \cup {[Fetched(<<>>, <<>>) EXCEPT !.err = TRUE],
              [Fetched(<<>>, <<>>) EXCEPT !.baseNil = TRUE],
              [Fetched(FromInt(1000), <<>>) EXCEPT !.quoteNil = TRUE]}

\* a decoded AMM-v4 pool (AMMPool.Decode, FetchPoolsByPair)
AmmPool(id, pnlB, pnlQ) ==
    [kind |-> "amm", id |-> id, BaseMint |-> MintA, QuoteMint |-> MintB,
     BaseNeedTakePnl |-> pnlB, QuoteNeedTakePnl |-> pnlQ,
     BaseAmount |-> ZeroInt, QuoteAmount |-> ZeroInt,
     BaseReserve |-> ZeroInt, QuoteReserve |-> ZeroInt]

\* a decoded CPMM pool; nothing ever assigns its NeedTakePnl fields
CpmmPool(id) ==
    [kind |-> "cpmm", id |-> id, Token0Mint |-> MintA, Token1Mint |-> MintB,
     BaseNeedTakePnl |-> <<>>, QuoteNeedTakePnl |-> <<>>,
     BaseAmount |-> ZeroInt, QuoteAmount |-> ZeroInt,
     BaseReserve |-> ZeroInt, QuoteReserve |-> ZeroInt]

\* a decoded PumpAMM pool
PumpPool(id) ==
    [kind |-> "pump", id |-> id, BaseMint |-> MintA, QuoteMint |-> MintB,
     BaseAmount |-> ZeroInt, QuoteAmount |-> ZeroInt]

\* one bin of a DLMM bin array: below the active bin only Y is left, above it
\* only X, and a bin that holds liquidity has its price stored
SampleBin(id, activeId) ==
    [amountX |-> IF id >= activeId /\ id <= activeId + 2 THEN FromInt(10000000) ELSE <<>>,
     amountY |-> IF id <= activeId /\ id >= activeId - 2 THEN FromInt(10000000) ELSE <<>>,
     price |-> Pow64]

SampleBinArray(index, activeId) ==
    [index |-> index,
     bins |-> [i \in 1..MaxBinPerArray |-> SampleBin(LowerBinID(index) + i - 1, activeId)]]

\* a decoded DLMM pool with its bin-array cache (MeteoraDlmmPool.Decode,
\* GetBinArrayForSwap) and clock snapshot (UpdateClock)
DlmmPool(id, status, pairType, activationType, clockTs, activeId) ==
    [kind |-> "dlmm", id |-> id, TokenXMint |-> MintA, TokenYMint |-> MintB,
     parameters |-> [baseFactor |-> FromInt(5000), filterPeriod |-> 30,
                     decayPeriod |-> 600, reductionFactor |-> FromInt(5000),
                     variableFeeControl |-> FromInt(40000),
                     maxVolatilityAccumulator |-> FromInt(350000),
                     protocolShare |-> FromInt(500), baseFeePowerFactor |-> 0],
     vParameters |-> [volatilityAccumulator |-> <<>>, volatilityReference |-> <<>>,
                      indexReference |-> activeId, lastUpdateTimestamp |-> 0],
     pairType |-> pairType, activeId |-> activeId, binStep |-> FromInt(10),
     status |-> status, activationType |-> activationType, activationPoint |-> 1,
     binArrayBitmap |-> {BinIDToBinArrayIndex(activeId)},
     BinArrays |-> [i \in {BinIDToBinArrayIndex(activeId)} |-> SampleBinArray(i, activeId)],
     Clock |-> [Slot |-> 1, UnixTimestamp |-> clockTs],
     orgActiveId |-> 0]

\* permissionless pools whose clock snapshot is inside the filter period, inside
\* the decay period and past it; permissioned pools activated by slot and by
\* timestamp; a disabled pool
DlmmSamples ==
    {DlmmPool("dlmm1", PairStatusEnabled, 0, ActivationTypeSlot, ts, 2) :
        ts \in {0, 100, 1000}}
    \cup {DlmmPool("dlmm1", PairStatusEnabled, PairTypePermission, at, 0, 2) :
            at \in {ActivationTypeSlot, ActivationTypeTimestamp}}
    \cup {DlmmPool("dlmm1", 1, 0, ActivationTypeSlot, 0, 2)}

DlmmInputSamples == {ZeroInt, NewInt(1000000)}

NoAccounts == Fetched(<<>>, <<>>)

PoolSamples ==
    {<<AmmPool("amm1", n[1], n[2]), a>> : n \in PnlSamples, a \in AccountSamples}
        \cup {<<CpmmPool("cpmm1"), a>> : a \in AccountSamples}
        \cup {<<PumpPool("pump1"), a>> : a \in AccountSamples}
        \cup {<<d, NoAccounts>> : d \in DlmmSamples}

(***************************************************************************)
(* Quotes on one pool record over a fixed snapshot: SpecQuote.             *)
(***************************************************************************)
InitQuote ==
    /\ \E s \in PoolSamples : pools = <<s[1]>> /\ accounts = <<s[2]>>
    /\ now = 0
    /\ calls = <<>>
    /\ discovered = pools
    /\ reqs = <<>>
    /\ gos = <<>>
    /\ chans = <<>>
    /\ ExtIdle

Crashed == \E i \in 1..Len(calls) : calls[i].err = PanicDivZero

Called(r, inputMint, inputAmount) ==
    /\ pools' = [pools EXCEPT ![1] = r.pool]
    /\ calls' = (IF calls = <<>> THEN <<>> ELSE <<calls[Len(calls)]>>)
                   \o <<[inputMint |-> inputMint, inputAmount |-> inputAmount,
                         out |-> r.out, err |-> r.err]>>
    /\ UNCHANGED <<accounts, now, routerVars>>

CanCall(kind) == ~Crashed /\ pools[1].kind = kind

QuoteAMM ==
    /\ CanCall("amm")
    /\ \E inputMint \in Mints, inputAmount \in InputSamples :
          Called(AMMPoolQuote(pools[1], accounts[1], inputMint, inputAmount),
                 inputMint, inputAmount)

QuoteCPMM ==
    /\ CanCall("cpmm")
    /\ \E inputMint \in Mints, inputAmount \in InputSamples :
          Called(CPMMPoolQuote(pools[1], accounts[1], inputMint, inputAmount),
                 inputMint, inputAmount)

QuotePump ==
    /\ CanCall("pump")
    /\ \E inputMint \in Mints, inputAmount \in InputSamples :
          Called(PumpAMMPoolQuote(pools[1], accounts[1], inputMint, inputAmount),
                 inputMint, inputAmount)

QuoteDLMM ==
    /\ CanCall("dlmm")
    /\ \E inputMint \in Mints, inputAmount \in DlmmInputSamples :
          Called(MeteoraDlmmPoolQuote(pools[1], now, inputMint, inputAmount),
                 inputMint, inputAmount)

\* the wall clock moves on between calls
Tick ==
    /\ now < MaxNow
    /\ now' = now + 1
    /\ UNCHANGED <<pools, accounts, calls, routerVars>>

NextQuote == QuoteAMM \/ QuoteCPMM \/ QuotePump \/ QuoteDLMM \/ Tick

SpecQuote == InitQuote /\ [][NextQuote]_vars

(***************************************************************************)
(* The router: SimpleRouter.GetBestPool.  Every call shares r.Pools; a     *)
(* goroutine per pool quotes it and sends its result on the call's         *)
(* buffered channel, a closer goroutine closes the channel once all have   *)
(* sent, and the caller ranges over the channel.                           *)
(***************************************************************************)
PinnedPoolID == "8sLbNZoA1cfnvMJLPfp98ZLAnFSYCFApfJKMbiXNLwxj"
ErrNoRoute == "no route found"
NilPool == 0

MaxPools == 2
MaxConcPools == 1

\* the pools discovery can hand the router, each with what a fetch of its
\* vaults returns
AllRouterSamples ==
    {<<AmmPool(PinnedPoolID, <<>>, <<>>),
       Fetched(FromInt(1000000000), FromInt(2000000000))>>,
     <<AmmPool(PinnedPoolID, <<>>, <<>>), [NoAccounts EXCEPT !.err = TRUE]>>,
     <<DlmmPool(PinnedPoolID, PairStatusEnabled, 0, ActivationTypeSlot, 0, 72),
       NoAccounts>>,
     <<AmmPool("pool2", <<>>, <<>>),
       Fetched(FromInt(1000000000), FromInt(1000000000))>>,
     <<CpmmPool("pool3"), Fetched(FromInt(1000000000), FromInt(2000000000))>>,
     <<PumpPool("pool4"), Fetched(FromInt(1000000000), FromInt(2000000000))>>,
     <<DlmmPool("pool5", 1, 0, ActivationTypeSlot, 100, 72), NoAccounts>>}

\* the lists of at most n pools with distinct ids
RECURSIVE PoolLists(_)
PoolLists(n) ==
    IF n = 0 THEN {<<>>}
    ELSE LET shorter == PoolLists(n - 1)
         IN  shorter \cup
             {Append(c[1], c[2]) :
                 c \in {d \in shorter \X AllRouterSamples :
                          /\ Len(d[1]) = n - 1
                          /\ \A j \in 1..Len(d[1]) : d[1][j][1].id # d[2][1].id}}

\* a caller about to call GetBestPool(tokenIn, amountIn); received lists the
\* pools whose results the range loop has taken off the channel, in order
Request(tokenIn, amountIn) ==
    [pc |-> "idle", tokenIn |-> tokenIn, amountIn |-> amountIn,
     best |-> NilPool, maxOut |-> ZeroInt,
     received |-> <<>>,
     ret |-> [pool |-> NilPool, out |-> ZeroInt, err |-> NoError]]

InitRouter(lists, n, mints, amounts) ==
    /\ \E l \in lists :
          /\ pools = [i \in 1..Len(l) |-> l[i][1]]
          /\ accounts = [i \in 1..Len(l) |-> l[i][2]]
    /\ now = 0
    /\ calls = <<>>
    /\ discovered = pools
    /\ reqs \in [1..n -> {Request(t, a) : t \in mints, a \in amounts}]
    /\ gos = [r \in 1..n |-> <<>>]
    /\ chans = [r \in 1..n |-> [buf |-> <<>>, closed |-> FALSE]]
    /\ ExtIdle

\* one call of GetBestPool
Init == InitRouter(PoolLists(MaxPools), 1, Mints, {NewInt(1000000)})

\* two calls of GetBestPool on the same router, both selling token X
InitConc ==
    InitRouter(PoolLists(MaxConcPools), 2, {MintA}, {NewInt(1000000), NewInt(25000000)})

\* lines 51-67: the channel is made and a goroutine is launched per pool
GetBestPool(r) ==
    /\ reqs[r].pc = "idle"
    /\ reqs' = [reqs EXCEPT ![r].pc = "collect"]
    /\ gos' = [gos EXCEPT ![r] =
                  [i \in 1..Len(pools) |->
                      [pc |-> "quote", w |-> NewWalk(reqs[r].tokenIn, reqs[r].amountIn),
                       out |-> ZeroInt, err |-> NoError]]]
    /\ UNCHANGED <<extVars, pools, accounts, now, calls, discovered, chans>>

\* p.Quote of an adapter whose call is one step
PoolQuote(p, acc, inputMint, inputAmount) ==
    IF p.kind = "amm" THEN AMMPoolQuote(p, acc, inputMint, inputAmount)
    ELSE IF p.kind = "cpmm" THEN CPMMPoolQuote(p, acc, inputMint, inputAmount)
    ELSE PumpAMMPoolQuote(p, acc, inputMint, inputAmount)

\* line 59: the goroutine's p.Quote, for a DLMM pool one step of its walk at
\* a time; the pool record is the one every call shares
GoQuote(r, i) ==
    /\ r \in DOMAIN gos /\ i \in DOMAIN gos[r]
    /\ gos[r][i].pc = "quote"
    /\ IF pools[i].kind = "dlmm"
       THEN \E s \in {DlmmQuoteStep(pools[i], now, gos[r][i].w)} :
               /\ pools' = [pools EXCEPT ![i] = s.pool]
               /\ gos' = [gos EXCEPT ![r][i] =
                             IF s.w.pc = "done"
                             THEN [pc |-> "send", w |-> s.w, out |-> s.w.out,
                                   err |-> s.w.err]
                             ELSE [@ EXCEPT !.w = s.w]]
       ELSE \E q \in {PoolQuote(pools[i], accounts[i], reqs[r].tokenIn,
                                reqs[r].amountIn)} :
               /\ pools' = [pools EXCEPT ![i] = q.pool]
               /\ gos' = [gos EXCEPT ![r][i].pc = "send", ![r][i].out = q.out,
                                     ![r][i].err = q.err]
    /\ UNCHANGED <<extVars, accounts, now, calls, discovered, reqs, chans>>

\* lines 60-64: the result is sent once the buffer, made for len(r.Pools)
\* results at line 52, has room; wg.Done follows
GoSend(r, i) ==
    /\ r \in DOMAIN gos /\ i \in DOMAIN gos[r]
    /\ gos[r][i].pc = "send"
    /\ gos[r][i].err # PanicDivZero
    /\ Len(chans[r].buf) < Len(pools)
    /\ chans' = [chans EXCEPT ![r].buf =
                    Append(@, [pool |-> i, outAmount |-> gos[r][i].out,
                               err |-> gos[r][i].err])]
    /\ gos' = [gos EXCEPT ![r][i].pc = "done"]
    /\ UNCHANGED <<extVars, pools, accounts, now, calls, discovered, reqs>>

\* the channel closed without waiting for the goroutines
CloseChanNoWait(r) ==
    /\ reqs[r].pc = "collect"
    /\ ~chans[r].closed
    /\ chans' = [chans EXCEPT ![r].closed = TRUE]
    /\ UNCHANGED <<extVars, pools, accounts, now, calls, discovered, reqs, gos>>

\* lines 69-72: wg.Wait(); close(resultChan)
CloseChan(r) ==
    /\ reqs[r].pc = "collect"
    /\ ~chans[r].closed
    /\ \A i \in DOMAIN gos[r] : gos[r][i].pc = "done"
    /\ chans' = [chans EXCEPT ![r].closed = TRUE]
    /\ UNCHANGED <<extVars, pools, accounts, now, calls, discovered, reqs, gos>>

\* the range loop without the test of result.err
CollectUnchecked(r) ==
    /\ reqs[r].pc = "collect"
    /\ chans[r].buf # <<>>
    /\ LET result == Head(chans[r].buf)
       IN  reqs' = [reqs EXCEPT ![r] =
                       IF pools[result.pool].id = PinnedPoolID
                       THEN [@ EXCEPT !.maxOut = result.outAmount,
                                      !.best = result.pool,
                                      !.received = Append(@, result.pool)]
                       ELSE [@ EXCEPT !.received = Append(@, result.pool)]]
    /\ chans' = [chans EXCEPT ![r].buf = Tail(@)]
    /\ UNCHANGED <<extVars, pools, accounts, now, calls, discovered, gos>>

\* lines 78-92: one pass of the range loop
Collect(r) ==
    /\ reqs[r].pc = "collect"
    /\ chans[r].buf # <<>>
    /\ LET result == Head(chans[r].buf)
       IN  reqs' = [reqs EXCEPT ![r] =
                       IF result.err # NoError
                       THEN [@ EXCEPT !.received = Append(@, result.pool)]
                       ELSE IF pools[result.pool].id = PinnedPoolID
                       THEN [@ EXCEPT !.maxOut = result.outAmount,
                                      !.best = result.pool,
                                      !.received = Append(@, result.pool)]
                       ELSE [@ EXCEPT !.received = Append(@, result.pool)]]
    /\ chans' = [chans EXCEPT ![r].buf = Tail(@)]
    /\ UNCHANGED <<extVars, pools, accounts, now, calls, discovered, gos>>

\* lines 94-97: the channel is drained and closed
Return(r) ==
    /\ reqs[r].pc = "collect"
    /\ chans[r].buf = <<>> /\ chans[r].closed
    /\ reqs' = [reqs EXCEPT ![r].pc = "done",
                            ![r].ret =
                                IF reqs[r].best = NilPool
                                THEN [pool |-> NilPool, out |-> ZeroInt,
                                      err |-> ErrNoRoute]
                                ELSE [pool |-> reqs[r].best, out |-> reqs[r].maxOut,
                                      err |-> NoError]]
    /\ UNCHANGED <<extVars, pools, accounts, now, calls, discovered, gos, chans>>

Next ==
    \/ \E r \in DOMAIN reqs : GetBestPool(r)
    \/ \E r \in DOMAIN reqs : \E i \in 1..Len(pools) : GoQuote(r, i)
    \/ \E r \in DOMAIN reqs : \E i \in 1..Len(pools) : GoSend(r, i)
    \/ \E r \in DOMAIN reqs : CloseChan(r)
    \/ \E r \in DOMAIN reqs : Collect(r)
    \/ \E r \in DOMAIN reqs : Return(r)

Spec == Init /\ [][Next]_vars

SpecConc == InitConc /\ [][Next]_vars

(***************************************************************************)
(* Properties.  The Quote calls of SpecQuote are read off calls: the last  *)
(* call, and the one before it on the same pool record and snapshot.       *)
(***************************************************************************)
LastCall == calls[Len(calls)]
PrevCall == calls[1]

\* the fetch of the two vaults succeeded
FetchOk == ~RpcFailed(accounts[1]) /\ ~BaseNil(accounts[1]) /\ ~QuoteNil(accounts[1])

\* floor(a / b) for b # 0
FloorQuo(a, b) ==
    LET q == Quo(a, b)
    IN  IF Mul(q, b) = a \/ a.neg = b.neg THEN q ELSE Sub(q, NewInt(1))

\* vault_balance - pending_pnl per side
EffectiveBase ==
    Sub(NewIntFromUint64(accounts[1].base), NewIntFromUint64(pools[1].BaseNeedTakePnl))
EffectiveQuote ==
    Sub(NewIntFromUint64(accounts[1].quote), NewIntFromUint64(pools[1].QuoteNeedTakePnl))

\* the reserves of a constant-product pool on the input and the output side
\* of a call: effective reserves for AMM-v4 and CPMM, balances for PumpAMM
SpecReserveIn(c) ==
    IF pools[1].kind = "pump"
    THEN NewIntFromUint64(IF c.inputMint = MintA THEN accounts[1].base
                          ELSE accounts[1].quote)
    ELSE IF c.inputMint = MintA THEN EffectiveBase ELSE EffectiveQuote
SpecReserveOut(c) ==
    IF pools[1].kind = "pump"
    THEN NewIntFromUint64(IF c.inputMint = MintA THEN accounts[1].quote
                          ELSE accounts[1].base)
    ELSE IF c.inputMint = MintA THEN EffectiveQuote ELSE EffectiveBase

\* x - floor(x * 25 / 10000)
SpecNetIn(x) == Sub(x, FloorQuo(Mul(x, NewInt(25)), NewInt(10000)))

\* floor(reserve_out * net / (reserve_in + net))
SpecOut(reserveIn, reserveOut, x) ==
    FloorQuo(Mul(reserveOut, SpecNetIn(x)), Add(reserveIn, SpecNetIn(x)))

\* the last call quoted a positive input on a pool of one of the kinds, its
\* vaults fetched, and the formula's divisor is not zero
FormulaCase(kinds) ==
    /\ calls # <<>>
    /\ pools[1].kind \in kinds
    /\ FetchOk
    /\ IsPositive(LastCall.inputAmount)
    /\ ~IsZero(Add(SpecReserveIn(LastCall), SpecNetIn(LastCall.inputAmount)))

\* C3: an AMM-v4 or CPMM Quote of x > 0 returns exactly
\* floor(reserve_out * (x - floor(x*25/10000)) / (reserve_in + (x - floor(x*25/10000))))
\* over the effective reserves of the input and output side.
C3_QuoteIsFloorFormula ==
    FormulaCase({"amm", "cpmm"}) =>
        /\ LastCall.err = NoError
        /\ LastCall.out = SpecOut(SpecReserveIn(LastCall), SpecReserveOut(LastCall),
                                  LastCall.inputAmount)

\* C4: a PumpAMM Quote of x > 0 returns exactly the same floor formula over
\* the pool's token balances.
C4_PumpQuoteIsFloorFormula ==
    FormulaCase({"pump"}) =>
        /\ LastCall.err = NoError
        /\ LastCall.out = SpecOut(SpecReserveIn(LastCall), SpecReserveOut(LastCall),
                                  LastCall.inputAmount)

\* the last call is the AMM-v4 or CPMM quote of 1_000_000 against reserves
\* in = 1_000_000_000, out = 2_000_000_000
ScenarioOneCall ==
    /\ calls # <<>>
    /\ pools[1].kind \in {"amm", "cpmm"}
    /\ FetchOk
    /\ LastCall.inputAmount = NewInt(1000000)
    /\ SpecReserveIn(LastCall) = NewInt(1000000000)
    /\ SpecReserveOut(LastCall) = NewInt(2000000000)

C6_ZeroInZeroOut ==
    (calls # <<>> /\ FetchOk /\ IsZero(LastCall.inputAmount)) =>
        /\ LastCall.err # PanicDivZero
        /\ LastCall.err = NoError => IsZero(LastCall.out)

\* two successive successful calls on the same pool and snapshot, in the same
\* direction
SamePoolPair ==
    /\ Len(calls) > 1
    /\ PrevCall.inputMint = LastCall.inputMint
    /\ PrevCall.err = NoError
    /\ LastCall.err = NoError

\* C7: within one pool and a fixed snapshot quote(x1) <= quote(x2) whenever
\* 0 <= x1 <= x2.
C7_Monotone ==
    SamePoolPair =>
        /\ LE(PrevCall.inputAmount, LastCall.inputAmount)
              => LE(PrevCall.out, LastCall.out)
        /\ LE(LastCall.inputAmount, PrevCall.inputAmount)
              => LE(LastCall.out, PrevCall.out)

\* C8: a Quote result of a positive input is non-negative and at most the
\* pool's balance of the output token, for all u64 balances and pending-PnL
\* values and both directions.
C8_WithinReserves ==
    (/\ calls # <<>>
     /\ pools[1].kind \in {"amm", "cpmm", "pump"}
     /\ FetchOk
     /\ IsPositive(LastCall.inputAmount)
     /\ LastCall.err = NoError) =>
        /\ ~IsNegative(LastCall.out)
        /\ LE(LastCall.out,
              NewIntFromUint64(IF LastCall.inputMint = MintA THEN accounts[1].quote
                               ELSE accounts[1].base))

\* C9: for a fixed snapshot and a fixed input, Quote called again on the same
\* pool record returns what it returned before, whatever the wall clock reads.
C9_Idempotent ==
    (/\ Len(calls) > 1
     /\ PrevCall.inputMint = LastCall.inputMint
     /\ PrevCall.inputAmount = LastCall.inputAmount) =>
        /\ PrevCall.err = LastCall.err
        /\ PrevCall.out = LastCall.out

(***************************************************************************)
(* Properties of GetBestPool.  A finished call's goroutines keep what      *)
(* their Quote returned.                                                   *)
(***************************************************************************)
Done(r) == reqs[r].pc = "done"

\* the pools whose Quote succeeded for call r
Succeeded(r) == {i \in DOMAIN gos[r] : gos[r][i].err = NoError}

\* C1: GetBestPool returns the pool whose Quote succeeded with the largest
\* output among the pools whose Quote succeeded, together with that amount
\* (some pool having quoted a positive output).
C1_ReturnsMaxOutput ==
    \A r \in DOMAIN reqs :
        (Done(r) /\ \E i \in Succeeded(r) : IsPositive(gos[r][i].out)) =>
            /\ reqs[r].ret.err = NoError
            /\ reqs[r].ret.pool \in Succeeded(r)
            /\ reqs[r].ret.out = gos[r][reqs[r].ret.pool].out
            /\ \A i \in Succeeded(r) : LE(gos[r][i].out, reqs[r].ret.out)

\* C2: GetBestPool returns "no route found" and no pool when the pool list is
\* empty or every pool's Quote returned an error.
C2_NoRouteFound ==
    \A r \in DOMAIN reqs :
        (Done(r) /\ Succeeded(r) = {}) =>
            /\ reqs[r].ret.err = ErrNoRoute
            /\ reqs[r].ret.pool = NilPool

\* a call over two pools, the pinned one among them, has returned after every
\* Quote failed
C2_Witness ==
    \E r \in DOMAIN reqs :
        /\ Done(r)
        /\ Len(pools) > 1
        /\ \E i \in 1..Len(pools) : pools[i].id = PinnedPoolID
        /\ Succeeded(r) = {}
        /\ reqs[r].ret.err = ErrNoRoute

\* Quote of pool i of the list as discovery left it, with no other call
AloneQuote(i, tokenIn, amountIn) ==
    IF discovered[i].kind = "dlmm"
    THEN MeteoraDlmmPoolQuote(discovered[i], now, tokenIn, amountIn)
    ELSE PoolQuote(discovered[i], accounts[i], tokenIn, amountIn)

\* what GetBestPool(tokenIn, amountIn) returns when it is the only call
AloneResult(tokenIn, amountIn) ==
    LET chosen == {i \in 1..Len(discovered) :
                     /\ discovered[i].id = PinnedPoolID
                     /\ AloneQuote(i, tokenIn, amountIn).err = NoError}
    IN  IF chosen = {}
        THEN [pool |-> NilPool, out |-> ZeroInt, err |-> ErrNoRoute]
        ELSE LET i == CHOOSE j \in chosen : TRUE
             IN  [pool |-> i, out |-> AloneQuote(i, tokenIn, amountIn).out,
                  err |-> NoError]

\* C10: of two GetBestPool calls running concurrently over the same pools,
\* each returns exactly what it would return running alone.
C10_RequestScoped ==
    \A r \in DOMAIN reqs :
        Done(r) => reqs[r].ret = AloneResult(reqs[r].tokenIn, reqs[r].amountIn)

(***************************************************************************)
(* Discovery: SimpleRouter.QueryAllPools asks each registered adapter for  *)
(* the pools of a pair; an adapter scans its program's accounts, decodes   *)
(* each and fetches or derives what the pool needs besides: SpecDisc.      *)
(***************************************************************************)
MaxProtocols == 2
MaxScan == 2

\* main.go lines 61-66: the adapters in the order main registers them
Registration ==
    <<"pump_amm", "raydium_amm", "raydium_clmm", "raydium_cpmm", "meteora_dlmm">>

\* the adapters that fetch or derive more than the pool account
HasAux(kind) == kind \in {"raydium_amm", "raydium_clmm", "meteora_dlmm"}

\* a program account of the scan: whether Decode accepts its data and
\* whether the pool's auxiliary data can be fetched and derived
KeyedAccounts(kind) ==
    {a \in [decodes : BOOLEAN, aux : BOOLEAN] :
        (~HasAux(kind) \/ ~a.decodes) => a.aux}

RECURSIVE SeqsUpTo(_, _)
SeqsUpTo(S, n) ==
    IF n = 0 THEN {<<>>}
    ELSE LET shorter == SeqsUpTo(S, n - 1)
         IN  shorter \cup {Append(q, x) : q \in {t \in shorter : Len(t) = n - 1}, x \in S}

\* what the chain answers an adapter: the scan fails, or returns up to m
\* accounts
ProtocolSamples(kind, m) ==
    {[kind |-> kind, scanErr |-> TRUE, accounts |-> <<>>]}
        \cup {[kind |-> kind, scanErr |-> FALSE, accounts |-> q] :
                 q \in SeqsUpTo(KeyedAccounts(kind), m)}

\* the registered adapters: up to n of them, in registration order, the
\* chain holding at most m pool accounts of the pair over all of them
RECURSIVE ProtocolLists(_, _, _)
ProtocolLists(from, n, m) ==
    IF n = 0 \/ from > Len(Registration) THEN {<<>>}
    ELSE ProtocolLists(from + 1, n, m)
            \cup UNION {{<<x>> \o rest :
                            rest \in ProtocolLists(from + 1, n - 1, m - Len(x.accounts))} :
                        x \in ProtocolSamples(Registration[from], m)}

\* the pool an adapter builds from account j of the scan of adapter p
Found(kind, p, j) == [kind |-> kind, id |-> <<p, j>>]

FetchResult(found, failed) == [pools |-> found, err |-> failed]

\* part_005 lines 149-161: a pool that does not decode is skipped, a pool
\* whose processAMMPool fails ends the adapter's call with that error
RECURSIVE RaydiumAMMScan(_, _, _, _)
RaydiumAMMScan(p, accts, j, res) ==
    IF j > Len(accts) THEN FetchResult(res, FALSE)
    ELSE IF ~accts[j].decodes THEN RaydiumAMMScan(p, accts, j + 1, res)
    ELSE IF ~accts[j].aux THEN FetchResult(<<>>, TRUE)
    ELSE RaydiumAMMScan(p, accts, j + 1, Append(res, Found("raydium_amm", p, j)))

\* part_005 lines 141-162
RaydiumAMMFetchPoolsByPair(p, proto) ==
    IF proto.scanErr THEN FetchResult(<<>>, TRUE)
    ELSE RaydiumAMMScan(p, proto.accounts, 1, <<>>)

\* the loop of the adapters that skip a pool on every failure
RECURSIVE SkippingScan(_, _, _, _, _)
SkippingScan(kind, p, accts, j, res) ==
    IF j > Len(accts) THEN FetchResult(res, FALSE)
    ELSE IF ~accts[j].decodes THEN SkippingScan(kind, p, accts, j + 1, res)
    ELSE IF ~accts[j].aux THEN SkippingScan(kind, p, accts, j + 1, res)
    ELSE SkippingScan(kind, p, accts, j + 1, Append(res, Found(kind, p, j)))

\* part_005 lines 32-60
MeteoraDlmmFetchPoolsByPair(p, proto) ==
    IF proto.scanErr THEN FetchResult(<<>>, TRUE)
    ELSE SkippingScan("meteora_dlmm", p, proto.accounts, 1, <<>>)

\* part_006 lines 29-65
RaydiumClmmFetchPoolsByPair(p, proto) ==
    IF proto.scanErr THEN FetchResult(<<>>, TRUE)
    ELSE SkippingScan("raydium_clmm", p, proto.accounts, 1, <<>>)

\* part_004 lines 425-444
RaydiumCpmmFetchPoolsByPair(p, proto) ==
    IF proto.scanErr THEN FetchResult(<<>>, TRUE)
    ELSE SkippingScan("raydium_cpmm", p, proto.accounts, 1, <<>>)

\* pump_amm.go lines 28-46
PumpAmmFetchPoolsByPair(p, proto) ==
    IF proto.scanErr THEN FetchResult(<<>>, TRUE)
    ELSE SkippingScan("pump_amm", p, proto.accounts, 1, <<>>)

\* proto.FetchPoolsByPair, dispatched on the adapter
FetchPoolsByPair(p, proto) ==
    IF proto.kind = "raydium_amm" THEN RaydiumAMMFetchPoolsByPair(p, proto)
    ELSE IF proto.kind = "meteora_dlmm" THEN MeteoraDlmmFetchPoolsByPair(p, proto)
    ELSE IF proto.kind = "raydium_clmm" THEN RaydiumClmmFetchPoolsByPair(p, proto)
    ELSE IF proto.kind = "raydium_cpmm" THEN RaydiumCpmmFetchPoolsByPair(p, proto)
    ELSE PumpAmmFetchPoolsByPair(p, proto)

coreVars == <<accounts, now, calls, reqs, gos, chans, rpcVars, simVars>>

InitDisc ==
    /\ BaseIdle
    /\ RpcIdle
    /\ SimIdle
    /\ protocols \in ProtocolLists(1, MaxProtocols, MaxScan)
    /\ query = [pc |-> "idle", i |-> 0, allPools |-> <<>>, err |-> NoError]

\* part_013 lines 26-30: the call starts with no pools
QueryAllPools ==
    /\ query.pc = "idle"
    /\ query' = [query EXCEPT !.pc = "loop", !.i = 1]
    /\ UNCHANGED <<pools, discovered, protocols, coreVars>>

\* an iteration that gives up at the first failing adapter
QueryFetchOrAbort ==
    /\ query.pc = "loop"
    /\ query.i <= Len(protocols)
    /\ LET got == FetchPoolsByPair(query.i, protocols[query.i])
       IN  query' = IF got.err
                    THEN [query EXCEPT !.pc = "done", !.err = "fetch failed"]
                    ELSE [query EXCEPT !.i = @ + 1, !.allPools = @ \o got.pools]
    /\ UNCHANGED <<pools, discovered, protocols, coreVars>>

\* part_013 lines 30-38: one iteration of the loop over r.Protocols
QueryFetch ==
    /\ query.pc = "loop"
    /\ query.i <= Len(protocols)
    /\ LET got == FetchPoolsByPair(query.i, protocols[query.i])
       IN  query' = IF got.err
                    THEN [query EXCEPT !.i = @ + 1]
                    ELSE [query EXCEPT !.i = @ + 1, !.allPools = @ \o got.pools]
    /\ UNCHANGED <<pools, discovered, protocols, coreVars>>

\* part_013 lines 40-41: r.Pools = allPools; return nil
QueryReturn ==
    /\ query.pc = "loop"
    /\ query.i > Len(protocols)
    /\ pools' = query.allPools
    /\ discovered' = query.allPools
    /\ query' = [query EXCEPT !.pc = "done", !.err = NoError]
    /\ UNCHANGED <<protocols, coreVars>>

NextDisc == QueryAllPools \/ QueryFetch \/ QueryReturn

SpecDisc == InitDisc /\ [][NextDisc]_vars

QueryDone == query.pc = "done"

\* account j of adapter p decodes and its auxiliary data is there
Healthy(p, j) == protocols[p].accounts[j].decodes /\ protocols[p].accounts[j].aux

InPools(p, j) == \E k \in 1..Len(pools) : pools[k].id = <<p, j>>

\* C11: after discovery, every pool that decodes and whose auxiliary data is
\* there, found by an adapter whose scan succeeded, is in the router's pool
\* list, whatever other pools of that adapter or of other adapters are broken.
C11_BrokenPoolSkipped ==
    QueryDone =>
        \A p \in 1..Len(protocols) :
            \A j \in 1..Len(protocols[p].accounts) :
                Healthy(p, j) => InPools(p, j)

\* the pools the adapters that succeeded returned, from adapter p on
RECURSIVE Concatenation(_)
Concatenation(p) ==
    IF p > Len(protocols) THEN <<>>
    ELSE LET got == FetchPoolsByPair(p, protocols[p])
         IN  (IF got.err THEN <<>> ELSE got.pools) \o Concatenation(p + 1)

\* C12: QueryAllPools returns no error whatever adapters failed, and the
\* registry then holds the concatenation, in registration order, of the pools
\* returned by the adapters that succeeded.
C12_BestEffortDiscovery ==
    QueryDone =>
        /\ query.err = NoError
        /\ pools = Concatenation(1)

\* discovery has returned after an adapter failed and a later one returned pools
C12_Witness ==
    /\ QueryDone
    /\ \E p \in 1..Len(protocols), q \in 1..Len(protocols) :
          /\ p < q
          /\ FetchPoolsByPair(p, protocols[p]).err
          /\ FetchPoolsByPair(q, protocols[q]).pools # <<>>

(***************************************************************************)
(* The RPC client: every wrapper of Client waits on the shared token       *)
(* bucket before it calls the node; some callers hold the raw client:      *)
(* SpecRpc.                                                                *)
(***************************************************************************)
MaxBurst == 2
MaxRpcs == 2

ErrCtx == "context done"
ErrFatal == "log.Fatalf"

\* a call on the client: the RPC method, what Wait did for it ("ok",
\* "failed", or "none" when Wait was not called), whether the request went
\* out, and the error the caller got
Rpc(method, wait, issued, err) ==
    [method |-> method, wait |-> wait, issued |-> issued, err |-> err]

\* log.Fatalf ended the process
Exited == rpcs # <<>> /\ rpcs[Len(rpcs)].err = ErrFatal

\* part_009 lines 23-25, rate.Limiter.Wait: an error when ctx is done, else
\* a token is taken, blocking while the bucket is empty
WaitFails == ctx # "live"
WaitBlocks == ctx = "live" /\ limiter = 0

CanCallRpc == ~Exited /\ Len(rpcs) < MaxRpcs

\* the body every wrapper of rpc_wrapper.go shares: Wait, then the call
Wrapped(method) ==
    /\ CanCallRpc
    /\ ~WaitBlocks
    /\ IF WaitFails
       THEN /\ rpcs' = Append(rpcs, Rpc(method, "failed", FALSE, ErrCtx))
            /\ UNCHANGED limiter
       ELSE /\ limiter' = limiter - 1
            /\ rpcs' = Append(rpcs, Rpc(method, "ok", TRUE, NoError))
    /\ UNCHANGED <<ctx, baseVars, discVars, simVars>>

\* rpc_wrapper.go lines 13-21
GetAccountInfoWithOpts == Wrapped("getAccountInfo")
\* rpc_wrapper.go lines 24-32
GetMultipleAccountsWithOpts == Wrapped("getMultipleAccounts")
\* rpc_wrapper.go lines 35-40
GetProgramAccountsWithOpts == Wrapped("getProgramAccounts")
\* rpc_wrapper.go lines 43-48
GetTokenAccountsByOwner == Wrapped("getTokenAccountsByOwner")
\* rpc_wrapper.go lines 51-56
GetTokenAccountBalance == Wrapped("getTokenAccountBalance")
\* rpc_wrapper.go lines 59-64
GetBalance == Wrapped("getBalance")
\* rpc_wrapper.go lines 67-72
GetLatestBlockhash == Wrapped("getLatestBlockhash")
\* rpc_wrapper.go lines 75-80
SimulateTransaction == Wrapped("simulateTransaction")
\* rpc_wrapper.go lines 83-88
SendTransactionWithOpts == Wrapped("sendTransaction")

\* ammPool.go lines 623-647: the tick arrays are fetched on a raw
\* *rpc.Client, which sends the request unless ctx is done
FetchPoolTickArrays ==
    /\ CanCallRpc
    /\ rpcs' = Append(rpcs,
                      IF ctx = "live"
                      THEN Rpc("getMultipleAccounts", "none", TRUE, NoError)
                      ELSE Rpc("getMultipleAccounts", "none", FALSE, ErrCtx))
    /\ UNCHANGED <<limiter, ctx, baseVars, discVars, simVars>>

\* part_007 lines 28-58: the blockhash through the wrapper, a failure of
\* which ends the process, then the bundle on the Jito client
SendTxWithJito ==
    /\ CanCallRpc
    /\ ~WaitBlocks
    /\ IF WaitFails
       THEN /\ rpcs' = Append(rpcs, Rpc("getLatestBlockhash", "failed", FALSE, ErrFatal))
            /\ UNCHANGED limiter
       ELSE /\ limiter' = limiter - 1
            /\ rpcs' = Append(rpcs, Rpc("sendBundle", "none", TRUE, NoError))
    /\ UNCHANGED <<ctx, baseVars, discVars, simVars>>

\* the bucket gains a token as time passes, up to its burst
Refill ==
    /\ limiter < MaxBurst
    /\ limiter' = limiter + 1
    /\ UNCHANGED <<ctx, rpcs, baseVars, discVars, simVars>>

\* the caller cancels the context, or its deadline passes
CancelCtx ==
    /\ ctx = "live"
    /\ ctx' \in {"cancelled", "deadline exceeded"}
    /\ UNCHANGED <<limiter, rpcs, baseVars, discVars, simVars>>

\* part_008 lines 79-83: a full bucket
InitRpc ==
    /\ BaseIdle
    /\ DiscIdle
    /\ SimIdle
    /\ limiter = MaxBurst
    /\ ctx = "live"
    /\ rpcs = <<>>

NextRpc ==
    \/ GetAccountInfoWithOpts \/ GetMultipleAccountsWithOpts
    \/ GetProgramAccountsWithOpts \/ GetTokenAccountsByOwner
    \/ GetTokenAccountBalance \/ GetBalance \/ GetLatestBlockhash
    \/ SimulateTransaction \/ SendTransactionWithOpts
    \/ FetchPoolTickArrays \/ SendTxWithJito
    \/ Refill \/ CancelCtx

SpecRpc == InitRpc /\ [][NextRpc]_vars

\* C13: every RPC that goes out was preceded by a successful Wait of the
\* rate limiter for that call, and a call whose Wait failed sends nothing
\* and returns the context's error to its caller.
C13_WaitBeforeRpc ==
    \A k \in 1..Len(rpcs) :
        /\ rpcs[k].issued => rpcs[k].wait = "ok"
        /\ rpcs[k].wait = "failed" => ~rpcs[k].issued /\ rpcs[k].err = ErrCtx

(***************************************************************************)
(* One MeteoraDlmmPool.Quote call taken a loop pass at a time, under a     *)
(* request context that may be cancelled while it runs: SpecWalk.          *)
(***************************************************************************)
\* the bin array at the lower edge of the pool's own bitmap
EdgeActiveId == LowerBinID(MinBitmapID) + 2

\* pools whose cache holds the active array only: in the middle of the bitmap
\* and at its lower edge; one with a second array set in the bitmap that is
\* not cached; a disabled pool
MidPool == DlmmPool("dlmm1", PairStatusEnabled, 0, ActivationTypeSlot, 0, 2)
EdgePool == DlmmPool("dlmm1", PairStatusEnabled, 0, ActivationTypeSlot, 0, EdgeActiveId)
GapPool == [MidPool EXCEPT !.binArrayBitmap = {-1, 0}]
OffPool == DlmmPool("dlmm1", 1, 0, ActivationTypeSlot, 0, 2)
\* a pool whose cache holds what GetBinArrayForSwap fetched: the active array
\* and its initialized neighbour on either side
WidePool ==
    [MidPool EXCEPT !.binArrayBitmap = {-1, 0, 1},
                    !.BinArrays = [i \in {-1, 0, 1} |-> SampleBinArray(i, 2)]]

\* pools whose references are stale: the clock snapshot stands inside the
\* decay period or past it, over the accumulator a calm and a volatile
\* market leave
StalePool(clockTs, accumulator) ==
    [MidPool EXCEPT !.Clock.UnixTimestamp = clockTs,
                    !.vParameters.volatilityAccumulator = FromInt(accumulator),
                    !.vParameters.volatilityReference = FromInt(7),
                    !.vParameters.indexReference = 1,
                    !.parameters.maxVolatilityAccumulator = FromInt(1500000)]
StalePools == {StalePool(ts, va) : ts \in {10, 100, 1000}, va \in {300000, 1000000}}

\* less than one bin holds, and more than the whole cache holds
SmallInput == NewInt(1000000)
LargeInput == NewInt(100000000)

\* the calls: a small input on every pool in both directions, a large one
\* where the walk leaves the cache within a few bins
WalkSamples ==
    {<<p, m, SmallInput>> : p \in {MidPool, EdgePool, GapPool, OffPool, WidePool},
                            m \in Mints}
    \cup {<<EdgePool, m, LargeInput>> : m \in Mints}
    \cup {<<GapPool, MintA, LargeInput>>}
    \cup {<<p, MintB, SmallInput>> : p \in StalePools}

\* the Quote signature takes ctx and nothing in the body reads it
\* touched: the bin arrays the call has looked up so far; built: the account
\* lists of the BuildSwapInstructions calls that followed it
BinWalkCall(pool, inputMint, inputAmount) ==
    [pc |-> "call", pool |-> pool, w |-> NewWalk(inputMint, inputAmount),
     touched |-> {}, built |-> <<>>]

InitWalk ==
    /\ BaseIdle
    /\ DiscIdle
    /\ RpcIdle
    /\ tickWalk = [pc |-> "none"]
    /\ roundTrip = [pc |-> "none"]
    /\ decoding = [pc |-> "none"]
    /\ building = [pc |-> "none"]
    /\ binWalk \in {BinWalkCall(c[1], c[2], c[3]) : c \in WalkSamples}

binFrame == <<baseVars, discVars, limiter, rpcs, tickWalk, roundTrip, decoding, building>>

\* part_003 lines 18-81: the prologue, or one pass of the outer or of the
\* inner loop; no pass reads ctx
BinWalkStep ==
    /\ binWalk.pc = "call"
    /\ binWalk.w.pc # "done"
    /\ binWalk' = With(DlmmQuoteStep(binWalk.pool, now, binWalk.w),
                       LAMBDA r : [binWalk EXCEPT
                           !.pool = r.pool, !.w = r.w,
                           !.touched = IF binWalk.w.pc = "outer" /\ r.w.pc = "inner"
                                       THEN @ \cup {r.w.activeBinArray.index}
                                       ELSE @])
    /\ UNCHANGED <<ctx, binFrame>>

\* the ways to list the members of a set
Orders(S) ==
    {q \in [1..Cardinality(S) -> S] : \A i, j \in DOMAIN q : i # j => q[i] # q[j]}

\* part_002 lines 63-84: the sixteen fixed slots; slot 1 is the program id
\* because pool.bitmapExtension is nil
FixedAccounts(pool, inputMint) ==
    LET xIn == inputMint = pool.TokenXMint
    IN  <<"PoolId", "MeteoraProgramID", "reserveX", "reserveY",
          IF xIn THEN "userBaseAccount" ELSE "userQuoteAccount",
          IF xIn THEN "userQuoteAccount" ELSE "userBaseAccount",
          "TokenXMint", "TokenYMint", "oracle", "MeteoraProgramID", "user",
          "tokenProgramID", "tokenProgramID", "MemoProgramID",
          "EventAuthorityPDA", "MeteoraProgramID">>

\* MeteoraDlmmPool.BuildSwapInstructions: the fixed slots, then one account
\* per key of pool.BinArrays in the order the range over the map yields
\* them, which the language leaves unspecified
DlmmBuildSwapInstructions(pool, inputMint) ==
    {FixedAccounts(pool, inputMint) \o [i \in DOMAIN q |-> [binArray |-> q[i]]] :
        q \in Orders(DOMAIN pool.BinArrays)}

MaxBuilds == 2

\* BuildSwapInstructions called on the pool after the quote has returned
BinWalkBuild ==
    /\ binWalk.pc = "call"
    /\ binWalk.w.pc = "done"
    /\ Len(binWalk.built) < MaxBuilds
    /\ \E metas \in DlmmBuildSwapInstructions(binWalk.pool, binWalk.w.inputMint) :
           binWalk' = [binWalk EXCEPT !.built = Append(@, metas)]
    /\ UNCHANGED <<ctx, binFrame>>

\* the caller cancels the request while the quote runs
BinWalkCancel ==
    /\ ctx = "live"
    /\ binWalk.pc = "call"
    /\ binWalk.w.pc # "done"
    /\ ctx' = "cancelled"
    /\ UNCHANGED <<binWalk, binFrame>>

NextWalk == BinWalkStep \/ BinWalkCancel \/ BinWalkBuild

SpecWalk == InitWalk /\ [][NextWalk]_vars

\* C14: a walk that stands at the head of one of its loops while the request
\* context is cancelled returns at that point; it executes no further pass.
C14_StopsOnCancel ==
    [][(/\ ctx = "cancelled"
        /\ binWalk.w.pc \in {"outer", "inner"}
        /\ binWalk' # binWalk) => binWalk'.w.pc = "done" /\ binWalk'.w.err = ErrCtx]_vars

\* the walk has returned
WalkDone == binWalk.w.pc = "done"

\* the rejections of the activation gate, made before the walk begins
GateErrors == {ErrDisabled, ErrActivationType, ErrNotActivated}

\* the error of a walk that ran out of bins: "insufficient liquidity: ..."
InsufficientLiquidity == ErrBinRange

\* what a call has left to do: the bins between the active bin and the end of
\* the id range in the walk's direction, then the rest of the current pass
WalkVariant(bw) ==
    IF bw.w.pc = "done" THEN 0
    ELSE IF bw.w.pc = "start" THEN 4 * (MaxBinID - MinBinID + 2) + 3
    ELSE 4 * (IF bw.w.swapForY THEN bw.pool.activeId - MinBinID
                               ELSE MaxBinID - bw.pool.activeId)
           + (IF bw.w.pc = "outer" THEN 2 ELSE 1)

\* every pass brings the call nearer to its return: the walk cannot loop forever
WalkProgress ==
    [][binWalk'.w # binWalk.w =>
          WalkVariant(binWalk') >= 0 /\ WalkVariant(binWalk') < WalkVariant(binWalk)]_vars

\* C19: over a finite bin-array cache a quote that passed the gate returns
\* either the accumulated output with no input left, or InsufficientLiquidity.
C19_ConsumesOrInsufficient ==
    WalkDone /\ binWalk.w.err \notin GateErrors =>
        \/ /\ binWalk.w.err = NoError
           /\ ~IsPositive(binWalk.w.amountLeft)
           /\ binWalk.w.out = binWalk.w.totalAmountOut
        \/ binWalk.w.err = InsufficientLiquidity

(***************************************************************************)
(* The activation gate of a DLMM quote, over the calls of SpecQuote.       *)
(***************************************************************************)
\* the current point as stated: the slot or the unix timestamp of the pool's
\* clock snapshot, by activation type
SnapshotPoint(pool) ==
    IF pool.activationType = ActivationTypeSlot THEN pool.Clock.Slot
    ELSE pool.Clock.UnixTimestamp

\* the gate as stated
GateRejects(pool) ==
    \/ pool.status # PairStatusEnabled
    \/ pool.pairType = PairTypePermission /\ SnapshotPoint(pool) < pool.activationPoint

\* C18: a DLMM quote is rejected by the gate exactly when the pair is not
\* enabled or is a permissioned pair whose clock-snapshot point (slot or unix
\* timestamp, by activation type) is below its activation point.
C18_ActivationGate ==
    (calls # <<>> /\ pools[1].kind = "dlmm") =>
        (LastCall.err \in GateErrors <=> GateRejects(pools[1]))

(***************************************************************************)
(* CLMM tick mathematics (ammPool.go lines 1403-1606).                     *)
(***************************************************************************)
\* a decimal literal, written in groups of three digits
RECURSIVE DecFrom(_, _)
DecFrom(groups, i) ==
    IF i = 0 THEN <<>>
    ELSE NAdd(NMulSmall(DecFrom(groups, i - 1), 1000), FromInt(groups[i]))

Dec(groups) == DecFrom(groups, Len(groups))

\* big.Int.Rsh and Lsh on a magnitude
NRsh(a, n) ==
    IF ~Known(a) THEN <<>> ELSE
    LET q == n \div 15
        s == n % 15
        b == IF q >= Len(a) THEN <<>> ELSE SubSeq(a, q + 1, Len(a))
    IN  Norm([i \in 1..Len(b) |->
                 (b[i] \div 2^s)
                 + (IF i < Len(b) THEN (b[i + 1] % 2^s) * 2^(15 - s) ELSE 0)])

NLsh(a, n) == NMul(a, NPow2(n))

\* big.Int.BitLen
NBitLen(a) ==
    IF a = <<>> THEN 0
    ELSE 15 * (Len(a) - 1) + (CHOOSE b \in 1..15 : 2^(b - 1) <= a[Len(a)] /\ a[Len(a)] < 2^b)

\* big.Int.Lsh of a signed value shifts the magnitude
Lsh(a, n) == MkInt(a.neg, NLsh(a.mag, n))

\* big.Int.Rsh of a signed value is an arithmetic shift: it rounds down
Rsh(a, n) ==
    IF a.neg THEN MkInt(TRUE, NRsh(NAdd(a.mag, NSub(NPow2(n), <<1>>)), n))
    ELSE MkInt(FALSE, NRsh(a.mag, n))

\* big.Int.And with the mask 2^w - 1: the low w bits of the two's complement
AndMask(a, w) ==
    LET low == NMod(a.mag, NPow2(w))
    IN  IF a.neg /\ low # <<>> THEN MkInt(FALSE, NSub(NPow2(w), low))
        ELSE MkInt(FALSE, low)

\* big.Int.Int64: the low 64 bits of the magnitude as an int64, negated for a
\* negative value (what the implementation returns when the value does not fit)
Int64(a) ==
    LET low == NMod(a.mag, Pow64)
        v == IF NCmp(low, Pow63) >= 0 THEN MkInt(TRUE, NSub(Pow64, low))
             ELSE MkInt(FALSE, low)
    IN  IF ~a.neg THEN v
        ELSE IF v.neg /\ v.mag = Pow63 THEN v
        ELSE Neg(v)

MinTick == -443636
MaxTick == 443636

MaxUint128Int == MkInt(FALSE, NSub(NPow2(128), <<1>>))

\* ammPool.go lines 1413-1426
mulRightShift(val, mulBy) == Quo(Mul(val, mulBy), MkInt(FALSE, Pow64))

\* lines 1441-1445: the ratio a tick starts from, by its lowest bit
RatioOdd == Dec(<<18, 445, 821, 805, 675, 395, 72>>)
RatioEven == Dec(<<18, 446, 744, 73, 709, 551, 616>>)

\* lines 1446-1517: the factor of bit k of |tick|, for k = 1..18
RatioFactors ==
    <<
      Dec(<<18, 444, 899, 583, 751, 176, 192>>),
      Dec(<<18, 443, 55, 278, 223, 355, 904>>),
      Dec(<<18, 439, 367, 220, 385, 607, 680>>),
      Dec(<<18, 431, 993, 317, 65, 453, 568>>),
      Dec(<<18, 417, 254, 355, 718, 170, 624>>),
      Dec(<<18, 387, 811, 781, 193, 609, 216>>),
      Dec(<<18, 329, 67, 761, 203, 558, 400>>),
      Dec(<<18, 212, 142, 134, 806, 163, 456>>),
      Dec(<<17, 980, 523, 815, 641, 700, 352>>),
      Dec(<<17, 526, 86, 738, 831, 433, 728>>),
      Dec(<<16, 651, 378, 430, 235, 570, 176>>),
      Dec(<<15, 30, 750, 278, 694, 412, 288>>),
      Dec(<<12, 247, 334, 978, 884, 435, 968>>),
      Dec(<<8, 131, 365, 268, 886, 854, 656>>),
      Dec(<<3, 584, 323, 654, 725, 218, 816>>),
      Dec(<<696, 457, 651, 848, 324, 352>>),
      Dec(<<26, 294, 789, 957, 507, 116>>),
      Dec(<<37, 481, 735, 321, 82>>)
    >>

ErrTickRange == "tick must be in MIN_TICK and MAX_TICK"
ErrSqrtPriceRange == "provided sqrtPrice is not within the supported sqrtPrice range"

\* lines 1446-1517: the factors of the bits lo..hi that |tick| has set, one
\* half of the bits after the other
RECURSIVE RatioFrom(_, _, _, _)
RatioFrom(ratio, tickAbs, lo, hi) ==
    IF ~Known(ratio) THEN ratio
    ELSE IF lo = hi
    THEN IF (tickAbs \div 2^lo) % 2 = 1
         THEN mulRightShift(ratio, MkInt(FALSE, RatioFactors[lo]))
         ELSE ratio
    ELSE RatioFrom(RatioFrom(ratio, tickAbs, lo, (lo + hi) \div 2),
                   tickAbs, (lo + hi) \div 2 + 1, hi)

\* ammPool.go lines 1429-1524
getSqrtPriceX64FromTick(tick) ==
    IF tick < MinTick \/ tick > MaxTick
    THEN [v |-> ZeroInt, err |-> ErrTickRange]
    ELSE LET tickAbs == IF tick < 0 THEN -tick ELSE tick
             ratio == RatioFrom(MkInt(FALSE, IF tickAbs % 2 = 1 THEN RatioOdd
                                             ELSE RatioEven),
                               tickAbs, 1, Len(RatioFactors))
         IN  [v |-> IF tick > 0 THEN Quo(MaxUint128Int, ratio) ELSE ratio,
              err |-> NoError]

\* lines 1527-1534
MaxSqrtPriceX64 == MkInt(FALSE, Dec(<<79, 226, 673, 515, 401, 279, 992, 447, 579, 55>>))
MinSqrtPriceX64 == MkInt(FALSE, Dec(<<4, 295, 48, 16>>))
BitPrecision == 14
LogB2X32 == MkInt(FALSE, Dec(<<59, 543, 866, 431, 248>>))
LogBPErrMarginLowerX64 == MkInt(FALSE, Dec(<<184, 467, 440, 737, 95, 516>>))
LogBPErrMarginUpperX64 == MkInt(FALSE, Dec(<<15, 793, 534, 762, 490, 258, 745>>))

\* lines 1537-1542
signedLeftShift(n, shiftBy, bitWidth) == AndMask(Lsh(n, shiftBy), bitWidth)

\* lines 1545-1547
signedRightShift(n, shiftBy, bitWidth) == Rsh(n, shiftBy)

\* lines 1573-1577: one pass of the loop, rr being r * r
Log2Pass(rr, log2pFractionX64, precision) ==
    [r |-> NRsh(rr, 63 + ToInt(NRsh(rr, 127))),
     log2pFractionX64 |->
         NAdd(log2pFractionX64, NMul(NPow2(63 - precision), NRsh(rr, 127)))]

\* lines 1572-1579: the passes lo..hi of the loop over bit = 2^63 >>
\* precision, one half of them after the other; the loop ends on the
\* precision, bit being positive throughout.  r and the fraction are
\* magnitudes.
RECURSIVE Log2Fraction(_, _, _)
Log2Fraction(st, lo, hi) ==
    IF ~Known(st) THEN st
    ELSE IF lo = hi THEN Log2Pass(NMul(st.r, st.r), st.log2pFractionX64, lo)
    ELSE Log2Fraction(Log2Fraction(st, lo, (lo + hi) \div 2),
                      (lo + hi) \div 2 + 1, hi)

\* the tick of a value that Int64() made of a big.Int, when it is one
InTickRange(t) == LE(NewInt(MinTick), t) /\ LE(t, NewInt(MaxTick))

\* ammPool.go lines 1549-1606; the tick is returned as an int64 value
getTickFromSqrtPriceX64(sqrtPriceX64) ==
    IF LT(MaxSqrtPriceX64, sqrtPriceX64) \/ LT(sqrtPriceX64, MinSqrtPriceX64)
    THEN [v |-> ZeroInt, err |-> ErrSqrtPriceRange]
    ELSE
    Forced(NBitLen(sqrtPriceX64.mag) - 1, LAMBDA msb :
    Forced(signedLeftShift(NewInt(msb - 64), 32, 128), LAMBDA log2pIntegerX32 :
    Forced(IF msb >= 64 THEN NRsh(sqrtPriceX64.mag, msb - 63)
         ELSE NLsh(sqrtPriceX64.mag, 63 - msb), LAMBDA r :
    Forced(MkInt(FALSE, NRsh(Log2Fraction([r |-> r, log2pFractionX64 |-> <<>>],
                                          0, BitPrecision - 1).log2pFractionX64, 32)), LAMBDA log2pFractionX32 :
    Forced(Mul(Add(log2pIntegerX32, log2pFractionX32), LogB2X32), LAMBDA logbpX64 :
    Forced(signedRightShift(Sub(logbpX64, LogBPErrMarginLowerX64), 64, 128),
         LAMBDA tickLow :
    Forced(signedRightShift(Add(logbpX64, LogBPErrMarginUpperX64), 64, 128),
         LAMBDA tickHigh :
        IF tickLow = tickHigh THEN [v |-> Int64(tickLow), err |-> NoError]
        ELSE IF ~InTickRange(Int64(tickHigh))
        THEN [v |-> ZeroInt, err |-> ErrTickRange]
        ELSE IF LE(getSqrtPriceX64FromTick(IntOf(Int64(tickHigh))).v, sqrtPriceX64)
        THEN [v |-> Int64(tickHigh), err |-> NoError]
        ELSE [v |-> Int64(tickLow), err |-> NoError])))))))

(***************************************************************************)
(* A tick taken to its sqrt price and back: SpecTick.                      *)
(***************************************************************************)
MaxNear == 8

\* the ticks around zero, the powers of two of either sign (one per factor),
\* and the two ends of the range
TickSamples ==
    (-MaxNear..MaxNear)
    \cup {2^k : k \in 0..Len(RatioFactors)}
    \cup {-(2^k) : k \in 0..Len(RatioFactors)}
    \cup {MinTick, MinTick + 1, MaxTick - 1, MaxTick}

InitTick ==
    /\ BaseIdle
    /\ DiscIdle
    /\ RpcIdle
    /\ binWalk = [pc |-> "none"]
    /\ tickWalk = [pc |-> "none"]
    /\ decoding = [pc |-> "none"]
    /\ building = [pc |-> "none"]
    /\ roundTrip \in {[pc |-> "tick", tick |-> t, price |-> ZeroInt,
                       back |-> ZeroInt, err |-> NoError] : t \in TickSamples}

tickFrame == <<baseVars, discVars, rpcVars, binWalk, tickWalk, decoding, building>>

\* getSqrtPriceX64FromTick(tick)
ToSqrtPrice ==
    /\ roundTrip.pc = "tick"
    /\ LET got == getSqrtPriceX64FromTick(roundTrip.tick)
       IN  roundTrip' = [roundTrip EXCEPT !.pc = IF got.err = NoError THEN "price"
                                                 ELSE "done",
                                          !.price = got.v, !.err = got.err]
    /\ UNCHANGED tickFrame

\* getTickFromSqrtPriceX64(price)
ToTick ==
    /\ roundTrip.pc = "price"
    /\ LET got == getTickFromSqrtPriceX64(roundTrip.price)
       IN  roundTrip' = [roundTrip EXCEPT !.pc = "done", !.back = got.v,
                                          !.err = got.err]
    /\ UNCHANGED tickFrame

NextTick == ToSqrtPrice \/ ToTick

SpecTick == InitTick /\ [][NextTick]_vars

\* C17: getTickFromSqrtPriceX64(getSqrtPriceX64FromTick(t)) = t for every
\* tick t of [MinTick, MaxTick], negative ticks included.
C17_RoundTrip ==
    (roundTrip.pc = "done" /\ roundTrip.tick \in MinTick..MaxTick) =>
        /\ roundTrip.err = NoError
        /\ roundTrip.back = NewInt(roundTrip.tick)

(***************************************************************************)
(* The CLMM swap step (ammPool.go lines 1625-1951).  Prices, liquidity and *)
(* step amounts are magnitudes; the remaining amount is signed.  The       *)
(* sample pools keep every product below the 256 bits of a math.Int.       *)
(***************************************************************************)
FEE_RATE_DENOMINATOR == FromInt(1000000)
U64Resolution == 64

\* lines 1751-1761, for a non-zero denominator
mulDivCeil(a, b, denominator) ==
    NDiv(NAdd(NMul(a, b), NSub(denominator, <<1>>)), denominator)

\* lines 1835-1842, for a non-zero denominator
mulDivFloor(a, b, denominator) == NDiv(NMul(a, b), denominator)

\* lines 1944-1951: one is added only when the remainder is no int64
mulDivRoundingUp(a, b, denominator) ==
    Forced(NDivMod(NMul(a, b), denominator), LAMBDA d :
        IF NCmp(d.r, Pow63) >= 0 THEN NAdd(d.q, <<1>>) ELSE d.q)

\* lines 1764-1801
getTokenAmountAFromLiquidity(sqrtPriceX64A, sqrtPriceX64B, liquidity, roundUp) ==
    LET swap == NCmp(sqrtPriceX64A, sqrtPriceX64B) > 0
        priceA == IF swap THEN sqrtPriceX64B ELSE sqrtPriceX64A
        priceB == IF swap THEN sqrtPriceX64A ELSE sqrtPriceX64B
        numerator1 == NLsh(liquidity, U64Resolution)
        numerator2 == NSub(priceB, priceA)
    IN  IF roundUp
        THEN mulDivCeil(mulDivCeil(numerator1, numerator2, priceB), <<1>>, priceA)
        ELSE NDiv(mulDivFloor(numerator1, numerator2, priceB), priceA)

\* lines 1804-1832
getTokenAmountBFromLiquidity(sqrtPriceX64A, sqrtPriceX64B, liquidity, roundUp) ==
    LET swap == NCmp(sqrtPriceX64A, sqrtPriceX64B) > 0
        priceA == IF swap THEN sqrtPriceX64B ELSE sqrtPriceX64A
        priceB == IF swap THEN sqrtPriceX64A ELSE sqrtPriceX64B
        priceDiff == NSub(priceB, priceA)
    IN  IF roundUp THEN mulDivCeil(liquidity, priceDiff, NPow2(U64Resolution))
        ELSE mulDivFloor(liquidity, priceDiff, NPow2(U64Resolution))

\* lines 1890-1921, for a positive liquidity; with add the denominator is
\* never below the numerator, so the first return is taken
getNextSqrtPriceFromTokenAmountARoundingUp(sqrtPriceX64, liquidity, amount, add) ==
    LET liquidityLeftShift == NLsh(liquidity, U64Resolution)
        amountMulSqrtPrice == NMul(amount, sqrtPriceX64)
    IN  IF amount = <<>> THEN sqrtPriceX64
        ELSE IF add
        THEN mulDivCeil(liquidityLeftShift, sqrtPriceX64,
                        NAdd(liquidityLeftShift, amountMulSqrtPrice))
        ELSE mulDivCeil(liquidityLeftShift, sqrtPriceX64,
                        NSub(liquidityLeftShift, amountMulSqrtPrice))

\* lines 1924-1941, for a positive liquidity
getNextSqrtPriceFromTokenAmountBRoundingDown(sqrtPriceX64, liquidity, amount, add) ==
    LET deltaY == NLsh(amount, U64Resolution)
    IN  IF add THEN NAdd(sqrtPriceX64, NDiv(deltaY, liquidity))
        ELSE NSub(sqrtPriceX64, mulDivRoundingUp(deltaY, <<1>>, liquidity))

\* lines 1844-1867
getNextSqrtPriceX64FromInput(sqrtPriceX64Current, liquidity, amount, zeroForOne) ==
    IF amount = <<>> THEN sqrtPriceX64Current
    ELSE IF zeroForOne
    THEN getNextSqrtPriceFromTokenAmountARoundingUp(sqrtPriceX64Current, liquidity,
                                                    amount, TRUE)
    ELSE getNextSqrtPriceFromTokenAmountBRoundingDown(sqrtPriceX64Current, liquidity,
                                                      amount, TRUE)

\* lines 1870-1888
getNextSqrtPriceX64FromOutput(sqrtPriceX64Current, liquidity, amount, zeroForOne) ==
    IF zeroForOne
    THEN getNextSqrtPriceFromTokenAmountBRoundingDown(sqrtPriceX64Current, liquidity,
                                                      amount, FALSE)
    ELSE getNextSqrtPriceFromTokenAmountARoundingUp(sqrtPriceX64Current, liquidity,
                                                    amount, FALSE)

\* the panics of the step's helpers: a price that is not positive (lines
\* 1777, 1817, 1851, 1877), no liquidity where a next price is solved for
\* (lines 1854, 1880), an output the liquidity cannot pay (lines 1911, 1935)
StepPanics(current, target, liquidity, amountRemaining, zeroForOne) ==
    \/ current = <<>>
    \/ target = <<>>
    \/ /\ amountRemaining.neg
       /\ LET full == IF zeroForOne
                      THEN getTokenAmountBFromLiquidity(target, current, liquidity, FALSE)
                      ELSE getTokenAmountAFromLiquidity(current, target, liquidity, FALSE)
          IN  /\ NCmp(amountRemaining.mag, full) < 0
              /\ \/ liquidity = <<>>
                 \/ IF zeroForOne
                    THEN NCmp(current,
                              mulDivRoundingUp(NLsh(amountRemaining.mag, U64Resolution),
                                               <<1>>, liquidity)) <= 0
                    ELSE NCmp(NLsh(liquidity, U64Resolution),
                              NMul(amountRemaining.mag, current)) <= 0

\* lines 1625-1748; feeRate is below FEE_RATE_DENOMINATOR
swapStepCompute(sqrtPriceX64Current, sqrtPriceX64Target, liquidity, amountRemaining, feeRate, zeroForOne) ==
    LET baseInput == ~amountRemaining.neg
        feeRateSubtracted == NSub(FEE_RATE_DENOMINATOR, feeRate)
    IN
    Forced(mulDivFloor(amountRemaining.mag, feeRateSubtracted, FEE_RATE_DENOMINATOR),
         LAMBDA amountRemainingSubtractFee :
    Forced(IF baseInput
         THEN IF zeroForOne
              THEN getTokenAmountAFromLiquidity(sqrtPriceX64Target, sqrtPriceX64Current,
                                                liquidity, TRUE)
              ELSE getTokenAmountBFromLiquidity(sqrtPriceX64Current, sqrtPriceX64Target,
                                                liquidity, TRUE)
         ELSE IF zeroForOne
              THEN getTokenAmountBFromLiquidity(sqrtPriceX64Target, sqrtPriceX64Current,
                                                liquidity, FALSE)
              ELSE getTokenAmountAFromLiquidity(sqrtPriceX64Current, sqrtPriceX64Target,
                                                liquidity, FALSE),
         LAMBDA full :
    Forced(IF baseInput
         THEN IF NCmp(amountRemainingSubtractFee, full) >= 0 THEN sqrtPriceX64Target
              ELSE getNextSqrtPriceX64FromInput(sqrtPriceX64Current, liquidity,
                                                amountRemainingSubtractFee, zeroForOne)
         ELSE IF NCmp(amountRemaining.mag, full) >= 0 THEN sqrtPriceX64Target
              ELSE getNextSqrtPriceX64FromOutput(sqrtPriceX64Current, liquidity,
                                                 amountRemaining.mag, zeroForOne),
         LAMBDA SqrtPriceX64Next :
    Forced(SqrtPriceX64Next = sqrtPriceX64Target, LAMBDA reachTargetPrice :
    Forced(IF reachTargetPrice /\ baseInput THEN full
         ELSE IF zeroForOne
         THEN getTokenAmountAFromLiquidity(SqrtPriceX64Next, sqrtPriceX64Current,
                                           liquidity, TRUE)
         ELSE getTokenAmountBFromLiquidity(sqrtPriceX64Current, SqrtPriceX64Next,
                                           liquidity, TRUE),
         LAMBDA AmountIn :
    Forced(IF reachTargetPrice /\ ~baseInput THEN full
         ELSE IF zeroForOne
         THEN getTokenAmountBFromLiquidity(SqrtPriceX64Next, sqrtPriceX64Current,
                                           liquidity, FALSE)
         ELSE getTokenAmountAFromLiquidity(sqrtPriceX64Current, SqrtPriceX64Next,
                                           liquidity, FALSE),
         LAMBDA out0 :
        [SqrtPriceX64Next |-> SqrtPriceX64Next,
         AmountIn |-> AmountIn,
         AmountOut |-> IF ~baseInput /\ NCmp(out0, amountRemaining.mag) > 0
                       THEN amountRemaining.mag ELSE out0,
         FeeAmount |-> IF baseInput /\ ~reachTargetPrice
                       THEN Sub(amountRemaining, MkInt(FALSE, AmountIn))
                       ELSE MkInt(FALSE, mulDivCeil(AmountIn, feeRate,
                                                    feeRateSubtracted))]))))))

(***************************************************************************)
(* CLMM tick arrays and their bitmap (ammPool.go lines 727-1330).  The     *)
(* pool's own bitmap is the set of the array indices whose bit (index +    *)
(* 512) is set; the extension bitmap of every sample pool is present and   *)
(* empty.                                                                  *)
(***************************************************************************)
TICK_ARRAY_SIZE == 60
TICK_ARRAY_BITMAP_SIZE == 512
MIN_TICK == -443636
MAX_TICK == 443636
MIN_SQRT_PRICE_X64 == MinSqrtPriceX64
MAX_SQRT_PRICE_X64 == MaxSqrtPriceX64

ErrZeroInput == "input amount cannot be zero"
ErrNextArray == "failed to get next initialized tick array: error: out of range"
ErrFirstTick == "failed to get first initialized tick"
ErrInsufficientLiquidity == "insufficient liquidity"
ErrMaxIterations == "swap computation exceeded maximum iterations"
PanicIndex == "panic: index out of range"
PanicStep == "panic: swap step"

\* Go's integer division truncates toward zero
TruncDiv(a, b) == IF a < 0 THEN -((-a) \div b) ELSE a \div b

\* line 753
getTickCount(tickSpacing) == tickSpacing * TICK_ARRAY_SIZE

\* lines 1198-1202: floor(tickIndex / ticksInArray) * ticksInArray
GetArrayStartIndex(tickIndex, tickSpacing) ==
    (tickIndex \div getTickCount(tickSpacing)) * getTickCount(tickSpacing)

\* lines 742-750 and 1348-1350
getTickArrayStartIndexByTick(tickIndex, tickSpacing) ==
    (tickIndex \div getTickCount(tickSpacing)) * getTickCount(tickSpacing)

\* lines 727-739: the bit looked at is that of the truncated quotient
checkTickArrayIsInitialized(tickArrayBitmap, tick, tickSpacing) ==
    LET compressed == TruncDiv(tick, getTickCount(tickSpacing)) + 512
        bitPos == IF compressed < 0 THEN -compressed ELSE compressed
    IN  bitPos \div 64 < 16 /\ (bitPos - 512) \in tickArrayBitmap

\* lines 1091-1126
isOverflowDefaultTickarrayBitmap(tickSpacing, tick) ==
    LET count == getTickCount(tickSpacing)
        whole == TICK_ARRAY_BITMAP_SIZE * count
        maxTickBoundary == IF whole > MAX_TICK
                           THEN TruncDiv(MAX_TICK, count) * count + count ELSE whole
        minTickBoundary == IF -whole < MIN_TICK
                           THEN TruncDiv(MIN_TICK, count) * count ELSE -whole
        tickarrayStartIndex == getTickArrayStartIndexByTick(tick, tickSpacing)
    IN  tickarrayStartIndex >= maxTickBoundary \/ tickarrayStartIndex < minTickBoundary

\* lines 951-1088 over an empty extension bitmap: the nearest initialized
\* array strictly beyond the array of tickCurrent in the pool's own bitmap;
\* failing that, the search runs through the empty extension words past
\* MIN_TICK or MAX_TICK and ends in "error: out of range".  It never returns
\* isExist = false without an error.
nextInitializedTickArrayStartIndexUtils(tickCurrent, tickSpacing, tickArrayBitmap, zeroForOne) ==
    LET count == getTickCount(tickSpacing)
        last == GetArrayStartIndex(tickCurrent, tickSpacing) \div count
        next == IF zeroForOne THEN last - 1 ELSE last + 1
        inside == next >= -TICK_ARRAY_BITMAP_SIZE /\ next < TICK_ARRAY_BITMAP_SIZE
        beyond == IF zeroForOne THEN {i \in tickArrayBitmap : i <= next}
                  ELSE {i \in tickArrayBitmap : i >= next}
    IN  IF inside /\ beyond # {}
        THEN [isExist |-> TRUE,
              index |-> count * (IF zeroForOne THEN SetMax(beyond) ELSE SetMin(beyond)),
              err |-> NoError]
        ELSE [isExist |-> FALSE, index |-> 0, err |-> ErrNextArray]

\* lines 1282-1328; an array outside the pool's own bitmap is looked up in
\* the extension, which is empty
getFirstInitializedTickArray(pool, zeroForOne) ==
    LET startIndex == getTickArrayStartIndexByTick(pool.TickCurrent, pool.TickSpacing)
        isInitialized ==
            /\ ~isOverflowDefaultTickarrayBitmap(pool.TickSpacing, pool.TickCurrent)
            /\ checkTickArrayIsInitialized(pool.TickArrayBitmap, pool.TickCurrent,
                                           pool.TickSpacing)
        next == nextInitializedTickArrayStartIndexUtils(pool.TickCurrent,
                    pool.TickSpacing, pool.TickArrayBitmap, zeroForOne)
    IN  IF isInitialized THEN [index |-> startIndex, err |-> NoError]
        ELSE IF next.err # NoError THEN [index |-> 0, err |-> next.err]
        ELSE [index |-> next.index, err |-> NoError]

\* the zero value a map lookup gives for a key it does not hold
NoTickArray == [StartTickIndex |-> 0, Ticks |-> <<>>]
NoTick == [Tick |-> 0, LiquidityNet |-> 0, LiquidityGross |-> 0]

\* pool.TickArrayCache[strconv.FormatInt(index, 10)]
CachedTickArray(pool, index) ==
    IF index \in DOMAIN pool.TickArrayCache THEN pool.TickArrayCache[index]
    ELSE NoTickArray

\* the offsets of the initialized ticks of an array
Initialized(tickArray) ==
    {o \in 0..(Len(tickArray.Ticks) - 1) : tickArray.Ticks[o + 1].LiquidityGross > 0}

\* lines 1247-1279; found = FALSE is the nil return.  Indexing an array
\* without ticks panics.
getNextInitTick(tickArrayCurrent, currentTickIndex, tickSpacing, zeroForOne, t) ==
    LET offsetInArray ==
            TruncDiv(currentTickIndex - tickArrayCurrent.StartTickIndex, tickSpacing)
        from == IF zeroForOne \/ t THEN offsetInArray ELSE offsetInArray + 1
        left == IF zeroForOne THEN {o \in Initialized(tickArrayCurrent) : o <= from}
                ELSE {o \in Initialized(tickArrayCurrent) : o >= from}
        none == [found |-> FALSE, tick |-> NoTick, panic |-> FALSE]
    IN  IF GetArrayStartIndex(currentTickIndex, tickSpacing)
              # tickArrayCurrent.StartTickIndex
        THEN none
        ELSE IF (IF zeroForOne THEN from >= 0 ELSE from < TICK_ARRAY_SIZE)
                /\ from >= Len(tickArrayCurrent.Ticks)
        THEN [none EXCEPT !.panic = TRUE]
        ELSE IF left = {} THEN none
        ELSE [found |-> TRUE,
              tick |-> tickArrayCurrent.Ticks[
                           (IF zeroForOne THEN SetMax(left) ELSE SetMin(left)) + 1],
              panic |-> FALSE]

\* lines 1218-1245
firstInitializedTick(tickArrayCurrent, zeroForOne) ==
    LET init == Initialized(tickArrayCurrent)
    IN  IF init = {} THEN [tick |-> NoTick, err |-> ErrFirstTick]
        ELSE [tick |-> tickArrayCurrent.Ticks[
                           (IF zeroForOne THEN SetMax(init) ELSE SetMin(init)) + 1],
              err |-> NoError]

(***************************************************************************)
(* CLMMPool.swapCompute (part_001 lines 505-674), one loop iteration at a  *)
(* time.  A walk record holds the locals of the call; start, target and    *)
(* next are the prices of its latest swap step.  An error is recorded by   *)
(* the message of its innermost cause.  The sample pools keep liquidity     *)
(* non-negative.                                                           *)
(***************************************************************************)
MaxIterations == 100

\* a return of swapCompute
SwapReturn(w, out, err) == [w EXCEPT !.pc = "done", !.out = out, !.err = err]

\* part_001 lines 513-561, after getFirstInitializedTickArray (lines 481-487)
NewSwap(pool, inputTokenMint, amountSpecified) ==
    LET zeroForOne == inputTokenMint = pool.TokenMint0
        first == getFirstInitializedTickArray(pool, zeroForOne)
        lastSaved == first.index
        currentTick == pool.TickCurrent
        count == getTickCount(pool.TickSpacing)
        baseInput == IsPositive(amountSpecified)
        tick == IF currentTick > lastSaved
                THEN IF lastSaved + count - 1 < currentTick
                     THEN lastSaved + count - 1 ELSE currentTick
                ELSE lastSaved
        tickArrayCurrent == CachedTickArray(pool, lastSaved)
        w == [pc |-> "loop",
              zeroForOne |-> zeroForOne,
              baseInput |-> baseInput,
              sqrtPriceLimitX64 |-> IF baseInput THEN Add(MIN_SQRT_PRICE_X64, NewInt(1))
                                    ELSE Sub(MAX_SQRT_PRICE_X64, NewInt(1)),
              amountSpecifiedRemaining |-> amountSpecified,
              amountCalculated |-> ZeroInt,
              sqrtPriceX64 |-> pool.SqrtPriceX64,
              tick |-> tick,
              liquidity |-> pool.Liquidity,
              tickArrayCurrent |-> tickArrayCurrent,
              t |-> ~zeroForOne /\ tickArrayCurrent.StartTickIndex = tick,
              loop |-> 0,
              stepped |-> FALSE,
              start |-> pool.SqrtPriceX64,
              target |-> ZeroInt,
              next |-> ZeroInt,
              out |-> ZeroInt,
              err |-> NoError]
    IN  IF first.err # NoError THEN SwapReturn(w, ZeroInt, first.err)
        ELSE IF IsZero(amountSpecified) THEN SwapReturn(w, ZeroInt, ErrZeroInput)
        ELSE w

\* part_001 lines 639-672: the amounts, the liquidity and the tick after a
\* step, and the iteration guard.  The second branch compares two Int
\* structs that never share their pointer, so it is taken whenever the step
\* did not end on the next tick's price.
SwapSettle(w, tickArrayCurrent, nextInitTick, tickNext, sqrtPriceNextX64, targetPrice, step) ==
    LET sqrtPriceX64 == MkInt(FALSE, step.SqrtPriceX64Next)
        amountIn == MkInt(FALSE, step.AmountIn)
        amountOut == MkInt(FALSE, step.AmountOut)
        onTick == sqrtPriceX64 = sqrtPriceNextX64
        liquidityNet == IF w.zeroForOne THEN -nextInitTick.LiquidityNet
                        ELSE nextInitTick.LiquidityNet
        after == [w EXCEPT
                    !.tickArrayCurrent = tickArrayCurrent,
                    !.stepped = TRUE,
                    !.start = w.sqrtPriceX64,
                    !.target = targetPrice,
                    !.next = sqrtPriceNextX64,
                    !.sqrtPriceX64 = sqrtPriceX64,
                    !.amountSpecifiedRemaining =
                        IF w.baseInput
                        THEN Sub(w.amountSpecifiedRemaining, Add(amountIn, step.FeeAmount))
                        ELSE Add(w.amountSpecifiedRemaining, amountOut),
                    !.amountCalculated =
                        IF w.baseInput THEN Sub(w.amountCalculated, amountOut)
                        ELSE Add(w.amountCalculated, Add(amountIn, step.FeeAmount)),
                    !.loop = w.loop + 1]
        guard(x) == IF x.loop > MaxIterations THEN SwapReturn(x, ZeroInt, ErrMaxIterations)
                    ELSE x
    IN  IF onTick
        THEN guard([after EXCEPT
                      !.liquidity = IF nextInitTick.LiquidityGross > 0
                                    THEN Add(w.liquidity, NewInt(liquidityNet))
                                    ELSE w.liquidity,
                      !.t = /\ tickNext # w.tick
                            /\ ~w.zeroForOne
                            /\ tickArrayCurrent.StartTickIndex = tickNext,
                      !.tick = IF w.zeroForOne THEN tickNext - 1 ELSE tickNext])
        ELSE Forced(getTickFromSqrtPriceX64(sqrtPriceX64), LAMBDA T :
                  IF T.err # NoError
                  THEN SwapReturn([after EXCEPT !.loop = w.loop], ZeroInt, T.err)
                  ELSE guard([after EXCEPT
                                !.t = /\ IntOf(T.v) # w.tick
                                      /\ ~w.zeroForOne
                                      /\ tickArrayCurrent.StartTickIndex = IntOf(T.v),
                                !.tick = IntOf(T.v)]))

\* part_001 lines 603-637: the next tick's price, the target and the step
SwapAcross(pool, w, tickArrayCurrent, nextInitTick) ==
    LET tickNext == IF nextInitTick.Tick < MIN_TICK THEN MIN_TICK
                    ELSE IF nextInitTick.Tick > MAX_TICK THEN MAX_TICK
                    ELSE nextInitTick.Tick
    IN  Forced(getSqrtPriceX64FromTick(tickNext), LAMBDA p :
        IF p.err # NoError THEN SwapReturn(w, ZeroInt, p.err)
        ELSE
        Forced(IF (w.zeroForOne /\ LT(p.v, w.sqrtPriceLimitX64))
                  \/ (~w.zeroForOne /\ LT(w.sqrtPriceLimitX64, p.v))
               THEN w.sqrtPriceLimitX64 ELSE p.v,
               LAMBDA targetPrice :
        IF StepPanics(w.sqrtPriceX64.mag, targetPrice.mag, w.liquidity.mag,
                      w.amountSpecifiedRemaining, w.zeroForOne)
        THEN SwapReturn(w, ZeroInt, PanicStep)
        ELSE
        Forced(swapStepCompute(w.sqrtPriceX64.mag, targetPrice.mag, w.liquidity.mag,
                             w.amountSpecifiedRemaining, FromInt(pool.FeeRate),
                             w.zeroForOne),
             LAMBDA step :
                 SwapSettle(w, tickArrayCurrent, nextInitTick, tickNext, p.v,
                            targetPrice, step))))

\* part_001 lines 564-601 and on: one iteration of the loop
SwapIterate(pool, w) ==
    LET here == getNextInitTick(w.tickArrayCurrent, w.tick, pool.TickSpacing,
                                w.zeroForOne, w.t)
        beyond == nextInitializedTickArrayStartIndexUtils(w.tick, pool.TickSpacing,
                      pool.TickArrayBitmap, w.zeroForOne)
        tickArrayCurrent == CachedTickArray(pool, beyond.index)
        first == firstInitializedTick(tickArrayCurrent, w.zeroForOne)
    IN  IF IsZero(w.amountSpecifiedRemaining) \/ w.sqrtPriceX64 = w.sqrtPriceLimitX64
        THEN SwapReturn(w, w.amountCalculated, NoError)
        ELSE IF here.panic THEN SwapReturn(w, ZeroInt, PanicIndex)
        ELSE IF here.found THEN SwapAcross(pool, w, w.tickArrayCurrent, here.tick)
        ELSE IF beyond.err # NoError THEN SwapReturn(w, ZeroInt, beyond.err)
        ELSE IF ~beyond.isExist THEN SwapReturn(w, ZeroInt, ErrInsufficientLiquidity)
        ELSE IF first.err # NoError
        THEN SwapReturn([w EXCEPT !.tickArrayCurrent = tickArrayCurrent], ZeroInt,
                        first.err)
        ELSE SwapAcross(pool, w, tickArrayCurrent, first.tick)

(***************************************************************************)
(* CLMM quotes over sample pools of tick spacing 1: SwapPool has liquidity *)
(* and four initialized ticks around the current tick 0; DensePool has     *)
(* every tick of four arrays initialized and no liquidity in range.        *)
(***************************************************************************)
TickArrayOf(start, tickSpacing, initialized) ==
    [StartTickIndex |-> start,
     Ticks |-> [i \in 1..TICK_ARRAY_SIZE |->
                   [Tick |-> start + (i - 1) * tickSpacing,
                    LiquidityNet |-> 0,
                    LiquidityGross |->
                        IF (start + (i - 1) * tickSpacing) \in initialized THEN 1 ELSE 0]]]

ClmmPool(tickCurrent, liquidity, arrays, initialized) ==
    [kind |-> "clmm",
     TokenMint0 |-> MintA,
     TokenMint1 |-> MintB,
     TickSpacing |-> 1,
     TickCurrent |-> tickCurrent,
     SqrtPriceX64 |-> getSqrtPriceX64FromTick(tickCurrent).v,
     Liquidity |-> liquidity,
     FeeRate |-> 2500,
     TickArrayBitmap |-> arrays,
     TickArrayCache |-> [i \in {getTickCount(1) * a : a \in arrays} |->
                            TickArrayOf(i, 1, initialized)]]

SwapPool == ClmmPool(0, MkInt(FALSE, Dec(<<1, 0, 0, 0, 0>>)), {-1, 0}, {-30, -10, 10, 30})
DensePool == ClmmPool(59, ZeroInt, {-2, -1, 0, 1}, -120..119)

SwapSamples ==
    ({SwapPool} \X Mints \X {ZeroInt, NewInt(1000000), NewInt(-1000000),
                             MkInt(FALSE, Dec(<<100, 0, 0, 0>>))})
    \cup ({DensePool} \X Mints \X {NewInt(1000000)})

\* the n members of S nearest to its upper and to its lower end
Highest(S, n) == {i \in S : Cardinality({j \in S : j > i}) < n}
Lowest(S, n) == {i \in S : Cardinality({j \in S : j < i}) < n}

\* ammPool.go lines 687-703 over an empty extension: both searches start one
\* array below the current one
getInitializedTickArrayInRange(pool, count) ==
    LET offset == getTickArrayStartIndexByTick(pool.TickCurrent, pool.TickSpacing)
                      \div getTickCount(pool.TickSpacing)
        low == Highest({i \in pool.TickArrayBitmap : i <= offset - 1}, count)
        high == Lowest({i \in pool.TickArrayBitmap : i >= offset - 1}, count)
    IN  {i * getTickCount(pool.TickSpacing) : i \in low \cup high}

TickArraysFetched == 10

PanicNil == "panic: nil pointer dereference"

\* the accounts the chain does not hold: the extension bitmap's, or those of
\* some tick arrays by start index
NoNulls == [exBitmap |-> FALSE, tickArrays |-> {}]

\* CLMMPool.Quote called on a pool; the record's cache stands for the tick
\* array accounts the chain holds, nulls for those it does not
QuoteCall(pool, inputMint, inputAmount, nulls) ==
    [pc |-> "quote", pool |-> pool, inputMint |-> inputMint, inputAmount |-> inputAmount,
     nulls |-> nulls, w |-> [pc |-> "none"]]

\* part_001 lines 434-478: result.Data of a null entry is read in both loops,
\* then ComputeAmountOutFormat runs over the cache the fetch filled
ClmmQuoteFetch(q) ==
    LET wanted == getInitializedTickArrayInRange(q.pool, TickArraysFetched)
        cached == [q.pool EXCEPT !.TickArrayCache =
                      [i \in wanted \cap DOMAIN q.pool.TickArrayCache |->
                          q.pool.TickArrayCache[i]]]
    IN  IF q.nulls.exBitmap \/ wanted \cap q.nulls.tickArrays # {}
        THEN [q EXCEPT !.pc = "panic", !.w = [pc |-> "done", err |-> PanicNil]]
        ELSE [q EXCEPT !.pc = "call", !.pool = cached,
                       !.w = NewSwap(cached, q.inputMint, q.inputAmount)]

NullSamples ==
    {NoNulls, [NoNulls EXCEPT !.exBitmap = TRUE], [NoNulls EXCEPT !.tickArrays = {-60}]}

InitSwap ==
    /\ BaseIdle
    /\ DiscIdle
    /\ RpcIdle
    /\ binWalk = [pc |-> "none"]
    /\ roundTrip = [pc |-> "none"]
    /\ decoding = [pc |-> "none"]
    /\ building = [pc |-> "none"]
    /\ tickWalk \in {QuoteCall(c[1], c[2], c[3], n) : c \in SwapSamples, n \in NullSamples}

swapFrame == <<baseVars, discVars, rpcVars, binWalk, roundTrip, decoding, building>>

\* the two batched fetches of Quote and the prologue of swapCompute
TickWalkFetch ==
    /\ tickWalk.pc = "quote"
    /\ tickWalk' = ClmmQuoteFetch(tickWalk)
    /\ UNCHANGED swapFrame

\* one iteration of swapCompute's loop
TickWalkStep ==
    /\ tickWalk.pc = "call"
    /\ tickWalk.w.pc = "loop"
    /\ tickWalk' = [tickWalk EXCEPT !.w = SwapIterate(tickWalk.pool, tickWalk.w)]
    /\ UNCHANGED swapFrame

NextSwap == TickWalkFetch \/ TickWalkStep

SpecSwap == InitSwap /\ [][NextSwap]_vars

\* the nearer of the next tick's price and the limit, in the swap's direction
NearerTarget(zeroForOne, next, limit) ==
    IF zeroForOne THEN (IF LT(next, limit) THEN limit ELSE next)
    ELSE (IF LT(limit, next) THEN limit ELSE next)

\* C15: after every swap step the step's target was the nearer, in the swap
\* direction, of the next initialized tick's price and the price limit, the
\* price has not passed the limit (not below it zero-for-one, not above it
\* one-for-zero) and it has not moved against the direction.
C15_PriceWithinLimit ==
    (tickWalk.pc = "call" /\ tickWalk.w.stepped) =>
        /\ tickWalk.w.target = NearerTarget(tickWalk.w.zeroForOne, tickWalk.w.next,
                                            tickWalk.w.sqrtPriceLimitX64)
        /\ IF tickWalk.w.zeroForOne
           THEN /\ LE(tickWalk.w.sqrtPriceLimitX64, tickWalk.w.sqrtPriceX64)
                /\ LE(tickWalk.w.sqrtPriceX64, tickWalk.w.start)
           ELSE /\ LE(tickWalk.w.sqrtPriceX64, tickWalk.w.sqrtPriceLimitX64)
                /\ LE(tickWalk.w.start, tickWalk.w.sqrtPriceX64)

\* C16: swapCompute never executes more than MaxIterations passes of its
\* loop, and a call that has returned either succeeded or failed with
\* InsufficientLiquidity.
C16_IterationBound ==
    tickWalk.pc = "call" =>
        /\ tickWalk.w.loop <= MaxIterations
        /\ tickWalk.w.pc = "done" =>
               tickWalk.w.err \in {NoError, ErrZeroInput, ErrInsufficientLiquidity}

(***************************************************************************)
(* The account decoders.  A decoder is its up-front length test, what it   *)
(* does with the 8-byte discriminator, and its layout: parts, each a body  *)
(* of reads repeated some times.  A read has a kind and a size in bytes:   *)
(*   "index"   data[o], or data[o:] handed to a fixed-width read: the Go   *)
(*             runtime panics when o + size > len(data);                   *)
(*   "slice"   data[o : o+size]: panics when o + size > cap(data), and     *)
(*             yields bytes past the end when len < o + size <= cap;       *)
(*   "advance" data = data[size:]: panics when o + size > len(data);       *)
(*   "bin"     a read through bin.Decoder: an error when o + size > len;   *)
(*   "skip"    offset += size, nothing is read.                            *)
(***************************************************************************)
Read(kind, size) == [kind |-> kind, size |-> size]

Part(body, times) == [body |-> body, times |-> times]

One(kind, size) == Part(<<Read(kind, size)>>, 1)

Many(kind, size, times) == Part(<<Read(kind, size)>>, times)

\* the bytes the reads lo..hi of a body take
RECURSIVE BodySize(_, _, _)
BodySize(body, lo, hi) ==
    IF lo > hi THEN 0
    ELSE IF lo = hi THEN body[lo].size
    ELSE BodySize(body, lo, (lo + hi) \div 2) + BodySize(body, (lo + hi) \div 2 + 1, hi)

\* the bytes the parts lo..hi take
RECURSIVE PartsSize(_, _, _)
PartsSize(parts, lo, hi) ==
    IF lo > hi THEN 0
    ELSE IF lo = hi
         THEN parts[lo].times * BodySize(parts[lo].body, 1, Len(parts[lo].body))
    ELSE PartsSize(parts, lo, (lo + hi) \div 2)
         + PartsSize(parts, (lo + hi) \div 2 + 1, hi)

\* every read of a layout with the value of offset it is made at
ReadsOf(parts) ==
    UNION {{[kind |-> parts[p].body[j].kind,
             size |-> parts[p].body[j].size,
             off  |-> PartsSize(parts, 1, p - 1)
                      + t * BodySize(parts[p].body, 1, Len(parts[p].body))
                      + BodySize(parts[p].body, 1, j - 1)] :
               t \in 0..(parts[p].times - 1), j \in 1..Len(parts[p].body)} :
           p \in 1..Len(parts)}

\* src/unnamed/part_001 lines 99-261
CLMMPoolLayout ==
    <<One("index", 1), Many("slice", 32, 7), Many("index", 1, 2), One("slice", 2),
      Many("slice", 16, 2), One("slice", 4), Many("slice", 2, 2), Many("slice", 16, 2),
      Many("slice", 8, 2), Many("slice", 16, 4), One("index", 1), One("skip", 7),
      Part(<<Read("index", 1), Read("slice", 8), Read("slice", 8), Read("slice", 8),
             Read("slice", 16), Read("slice", 8), Read("slice", 8), Read("slice", 32),
             Read("slice", 32), Read("slice", 32), Read("slice", 16)>>, 3),
      Many("slice", 8, 16), Many("slice", 8, 6), Many("slice", 8, 2),
      One("skip", 24 * 8), One("skip", 32 * 8)>>

\* src/pkg/pool/raydium/ammPool.go lines 131-254
AMMPoolLayout ==
    <<Many("slice", 8, 32), Many("slice", 16, 2), One("slice", 8), Many("slice", 16, 2),
      One("slice", 8), Many("slice", 32, 12), One("slice", 8), Many("slice", 8, 3)>>

\* src/pkg/pool/raydium/ammPool.go lines 548-609
TickArrayLayout ==
    <<One("bin", 8), One("bin", 32), One("bin", 4),
      Part(<<Read("index", 4), Read("index", 8), Read("skip", 8), Read("index", 16),
             Read("index", 16), Read("index", 16), Read("index", 16), Read("index", 16),
             Read("index", 16), Read("skip", 52)>>, TICK_ARRAY_SIZE),
      One("index", 1)>>

EXTENSION_TICKARRAY_BITMAP_SIZE == 14

\* src/pkg/pool/raydium/ammPool.go lines 650-685: data = data[8:], the pool
\* id at data[:32] and data = data[32:], then each bitmap word by word at
\* data[j*8 : (j+1)*8] and data = data[64:]; an advance of 0 is the reslice
\* behind bytes that the slices before it have read
ExBitmapLayout ==
    <<One("advance", 8), One("slice", 32), One("advance", 0),
      Part(<<Read("slice", 8), Read("slice", 8), Read("slice", 8), Read("slice", 8),
             Read("slice", 8), Read("slice", 8), Read("slice", 8), Read("slice", 8),
             Read("advance", 0)>>,
           2 * EXTENSION_TICKARRAY_BITMAP_SIZE)>>

\* src/pkg/pool/meteora/bin_array.go lines 75-171
BinArrayLayout ==
    <<One("skip", 8), One("slice", 8), One("index", 1), One("slice", 7), One("slice", 32),
      Part(<<Read("slice", 8), Read("slice", 8)>>
           \o [k \in 1..16 |-> Read("slice", 8)], 70)>>

\* src/pkg/pool/meteora/bin_array.go lines 313-520
MeteoraDlmmPoolLayout ==
    <<One("skip", 8), Many("index", 2, 4), Many("index", 4, 4), One("index", 2),
      One("index", 1), One("skip", 5), Many("index", 4, 3), One("skip", 4),
      One("index", 8), One("skip", 8), One("index", 1), One("index", 2), One("index", 1),
      One("index", 4), One("index", 2), Many("index", 1, 2), One("index", 2),
      Many("index", 1, 2), Many("slice", 32, 4), Many("index", 8, 2), One("skip", 32),
      Part(<<Read("slice", 32), Read("slice", 32), Read("slice", 32), Read("index", 8),
             Read("index", 8), Read("index", 8), Read("index", 8), Read("index", 8)>>, 2),
      One("slice", 32), Many("index", 8, 16), One("index", 8), One("skip", 32),
      Many("slice", 32, 2), Many("index", 8, 2), One("skip", 8), One("index", 8),
      One("slice", 32), Many("index", 1, 2), One("slice", 22), One("skip", 16)>>

PoolDataSize == 211

\* src/unnamed/part_004 lines 88-117: the creator at the end is read only
\* when more than 32 bytes are left
ParsePoolDataLayout ==
    <<One("slice", 8), One("index", 1), One("slice", 2), Many("slice", 32, 6),
      One("slice", 8)>>

\* a decoder: test is the length its first statement requires (0: none),
\* strip is TRUE where it drops the discriminator of an input of more than
\* 8 bytes before it reads
Decoder(name, test, strip, layout) ==
    [name |-> name, test |-> test, strip |-> strip, layout |-> layout]

Decoders ==
    {Decoder("AMMPool.Decode", 752, FALSE, AMMPoolLayout),
     Decoder("CLMMPool.Decode", 0, TRUE, CLMMPoolLayout),
     Decoder("CPMMPool.Decode", 0, TRUE, <<One("bin", 576)>>),
     Decoder("MeteoraDlmmPool.Decode", 0, FALSE, MeteoraDlmmPoolLayout),
     Decoder("PumpAMMPool.Decode", PoolDataSize, FALSE, <<One("bin", PoolDataSize)>>),
     Decoder("ParsePoolData", PoolDataSize, FALSE, ParsePoolDataLayout),
     Decoder("TickArray.Decode", 0, FALSE, TickArrayLayout),
     Decoder("ParseExBitmapInfo", 0, FALSE, ExBitmapLayout),
     Decoder("ParseBinArray", 16, FALSE, BinArrayLayout)}

\* the end of the last byte a layout reads
Extent(parts) ==
    With(ReadsOf(parts), LAMBDA reads :
        With({r.off + r.size : r \in {x \in reads : x.kind # "skip"}}, LAMBDA ends :
            CHOOSE e \in ends : \A f \in ends : f <= e))

\* the bytes an input must have for the decoder to stay inside it
Needs(d) == Extent(d.layout) + (IF d.strip THEN 8 ELSE 0)

Stops(r, len, cap) ==
    \/ r.kind \in {"index", "advance", "bin"} /\ r.off + r.size > len
    \/ r.kind = "slice" /\ r.off + r.size > cap

Overreads(r, len, cap) == r.kind = "slice" /\ r.off + r.size > len /\ r.off + r.size <= cap

\* what the reads do on len bytes in a buffer of cap bytes: the first read
\* that stops decides between an error and a panic
ReadAll(reads, len, cap) ==
    With({r \in reads : Stops(r, len, cap)}, LAMBDA stops :
        IF stops = {}
        THEN (IF \E r \in reads : Overreads(r, len, cap) THEN "overread" ELSE "ok")
        ELSE IF (CHOOSE r \in stops : \A q \in stops : r.off <= q.off).kind = "bin"
        THEN "error" ELSE "panic")

\* the outcome of decoder d on an input of len bytes with spare more bytes of
\* capacity behind them
Decode(d, len, spare) ==
    IF len < d.test THEN "error"
    ELSE IF d.strip /\ len > 8
    THEN ReadAll(ReadsOf(d.layout), len - 8, len - 8 + spare)
    ELSE ReadAll(ReadsOf(d.layout), len, len + spare)

\* the lengths tried on decoder d: around the discriminator, around each
\* up-front test, one byte short, exact and long
SampleLengths(d) ==
    {0, 1, 8, 9, 16, 44, 45, 100, Needs(d) - 2, Needs(d) - 1, Needs(d), Needs(d) + 8}

InitDecode ==
    /\ BaseIdle
    /\ DiscIdle
    /\ RpcIdle
    /\ binWalk = [pc |-> "none"]
    /\ tickWalk = [pc |-> "none"]
    /\ roundTrip = [pc |-> "none"]
    /\ building = [pc |-> "none"]
    /\ \E d \in Decoders, c \in {0, 2} :
          \E n \in SampleLengths(d) :
             decoding = [pc |-> "call", decoder |-> d.name, test |-> d.test,
                         strip |-> d.strip, needs |-> Needs(d), len |-> n,
                         spare |-> c, outcome |-> "none"]

decodeFrame == <<baseVars, discVars, rpcVars, binWalk, tickWalk, roundTrip, building>>

\* one call of a decoder
DecodeCall ==
    /\ decoding.pc = "call"
    /\ \E d \in Decoders :
          /\ d.name = decoding.decoder
          /\ decoding' = [decoding EXCEPT !.pc = "done",
                                          !.outcome = Decode(d, decoding.len,
                                                             decoding.spare)]
    /\ UNCHANGED decodeFrame

NextDecode == DecodeCall

SpecDecode == InitDecode /\ [][NextDecode]_vars

\* C20: a decoder called on fewer bytes than its layout reads returns a
\* decode error: it neither panics nor reads past the end of the input.
C20_ShortInputIsError ==
    (decoding.pc = "done" /\ decoding.len < decoding.needs) => decoding.outcome = "error"

(***************************************************************************)
(* The account list of a DLMM swap instruction, over SpecWalk.             *)
(***************************************************************************)
\* the accounts after the fixed slots
Appended(metas) == SubSeq(metas, 17, Len(metas))

\* C21: the account list built after a quote is the 16 fixed accounts followed
\* by exactly the bin arrays the quote's walk touched, each once, and two
\* builds on the same pool and input give the same list.
C21_AccountsAreTouchedArrays ==
    (binWalk.pc = "call" /\ binWalk.w.pc = "done" /\ binWalk.w.err = NoError) =>
        /\ \A k \in DOMAIN binWalk.built :
              /\ SubSeq(binWalk.built[k], 1, 16)
                     = FixedAccounts(binWalk.pool, binWalk.w.inputMint)
              /\ Len(binWalk.built[k]) = 16 + Cardinality(binWalk.touched)
              /\ {Appended(binWalk.built[k])[i].binArray :
                    i \in DOMAIN Appended(binWalk.built[k])} = binWalk.touched
        /\ \A k, l \in DOMAIN binWalk.built : binWalk.built[k] = binWalk.built[l]

(***************************************************************************)
(* BuildSwapInstructions of the CLMM and PumpAMM adapters, one call at a   *)
(* time: SpecBuild.                                                        *)
(***************************************************************************)
\* an account of an instruction: a fixed slot by its name, the bitmap
\* extension PDA of the pool, the tick-array PDA of a start index
FixedMeta(name) == [kind |-> "fixed", name |-> name, start |-> 0]
ExBitmapMeta == [kind |-> "exBitmap", name |-> "exBitmapAddress", start |-> 0]
TickArrayMeta(start) == [kind |-> "tickArray", name |-> "tickArrayAddress", start |-> start]

\* the bit indices the searches run over: 30 words of 512 bits
SearchSpan == 7680

\* SearchLowBitFromStart and SearchHighBitFromStart with expectedCount = 1,
\* over an empty extension: the nearest set bit at or beyond the start, as a
\* list of at most one start index
SearchLowBitFromStart(tickArrayBitmap, start, tickSpacing) ==
    LET set == {i \in tickArrayBitmap : i <= start /\ i >= -SearchSpan}
    IN  IF set = {} THEN <<>> ELSE <<SetMax(set) * getTickCount(tickSpacing)>>

SearchHighBitFromStart(tickArrayBitmap, start, tickSpacing) ==
    LET set == {i \in tickArrayBitmap : i >= start /\ i < SearchSpan}
    IN  IF set = {} THEN <<>> ELSE <<SetMin(set) * getTickCount(tickSpacing)>>

\* ammPool.go lines 706-724: (0, false) when the search finds nothing
nextInitializedTickArray(tick, tickSpacing, zeroForOne, tickArrayBitmap) ==
    LET currentOffset == tick \div getTickCount(tickSpacing)
        result == IF zeroForOne
                  THEN SearchLowBitFromStart(tickArrayBitmap, currentOffset - 1, tickSpacing)
                  ELSE SearchHighBitFromStart(tickArrayBitmap, currentOffset + 1, tickSpacing)
    IN  IF Len(result) > 0 THEN [index |-> result[1], found |-> TRUE]
        ELSE [index |-> 0, found |-> FALSE]

ErrSameTickArray == "exTickArrayBitmapAddress is the same as firstTickArray"

\* CLMMPool.GetRemainAccounts: the found flag of the second search is dropped
GetRemainAccounts(pool, inputTokenMint) ==
    LET zeroForOne == inputTokenMint = pool.TokenMint0
        first == getFirstInitializedTickArray(pool, zeroForOne)
        next == nextInitializedTickArray(pool.TickCurrent, pool.TickSpacing, zeroForOne,
                                         pool.TickArrayBitmap)
    IN  IF first.err # NoError THEN [accounts |-> <<>>, err |-> first.err]
        ELSE IF next.index = first.index THEN [accounts |-> <<>>, err |-> ErrSameTickArray]
        ELSE [accounts |-> <<TickArrayMeta(first.index), TickArrayMeta(next.index)>>,
              err |-> NoError]

NoInstruction == [name |-> "none"]

\* CLMMPool.BuildSwapInstructions
ClmmBuildSwapInstructions(pool, inputMint, amountIn, minOut) ==
    LET zeroIn == inputMint = pool.TokenMint0
        remaining == GetRemainAccounts(pool, IF zeroIn THEN pool.TokenMint0
                                             ELSE pool.TokenMint1)
        slots == <<"userAddr", "AmmConfig", "PoolId",
                   IF zeroIn THEN "userBaseAccount" ELSE "userQuoteAccount",
                   IF zeroIn THEN "userQuoteAccount" ELSE "userBaseAccount",
                   IF zeroIn THEN "TokenVault0" ELSE "TokenVault1",
                   IF zeroIn THEN "TokenVault1" ELSE "TokenVault0",
                   "ObservationKey", "TokenProgramID", "TOKEN_2022_PROGRAM_ID",
                   "MEMO_PROGRAM_ID",
                   IF zeroIn THEN "TokenMint0" ELSE "TokenMint1",
                   IF zeroIn THEN "TokenMint1" ELSE "TokenMint0">>
    IN  IF remaining.err # NoError THEN [inst |-> NoInstruction, err |-> remaining.err]
        ELSE [inst |-> [name |-> "swap",
                        Amount |-> amountIn, OtherAmountThreshold |-> minOut,
                        SqrtPriceLimitX64 |-> 0, IsBaseInput |-> zeroIn,
                        accounts |-> [i \in DOMAIN slots |-> FixedMeta(slots[i])]
                                     \o <<ExBitmapMeta>> \o remaining.accounts],
              err |-> NoError]

\* PumpAMMPool.buyInAMMPool and sellInAMMPool: the data fields
buyInAMMPool(maxInputAmountWithDecimals, outAmountWithDecimals) ==
    [name |-> "buy", BaseAmountOut |-> outAmountWithDecimals,
     MaxQuoteAmountIn |-> maxInputAmountWithDecimals]

sellInAMMPool(baseAmountIn, minQuoteAmountOut) ==
    [name |-> "sell", BaseAmountIn |-> baseAmountIn,
     MinQuoteAmountOut |-> minQuoteAmountOut]

\* PumpAMMPool.BuildSwapInstructions
PumpBuildSwapInstructions(pool, inputMint, inputAmount, minOut) ==
    IF inputMint = pool.BaseMint
    THEN [inst |-> buyInAMMPool(inputAmount, minOut), err |-> NoError]
    ELSE [inst |-> sellInAMMPool(inputAmount, minOut), err |-> NoError]

\* CLMM pools of tick spacing 1 around tick 0 over sparse and dense bitmaps
BuildTicks == {-61, -1, 0, 59, 60, 130}
BuildBitmaps == {{}, {0}, {-1}, {2}, {-1, 0}, {0, 1}, {-2, -1, 0, 1}}
BuildAmounts == {5, 1000000}

BuildSamples ==
    ({ClmmPool(tc, ZeroInt, b, {}) : tc \in BuildTicks, b \in BuildBitmaps}
        \X Mints \X BuildAmounts \X {1})
    \cup ({PumpPool("pump1")} \X Mints \X BuildAmounts \X {1, 4})

BuildCall(pool, inputMint, amountIn, minOut) ==
    [pc |-> "call", pool |-> pool, inputMint |-> inputMint, amountIn |-> amountIn,
     minOut |-> minOut, inst |-> NoInstruction, err |-> NoError]

InitBuild ==
    /\ BaseIdle
    /\ DiscIdle
    /\ RpcIdle
    /\ binWalk = [pc |-> "none"]
    /\ tickWalk = [pc |-> "none"]
    /\ roundTrip = [pc |-> "none"]
    /\ decoding = [pc |-> "none"]
    /\ building \in {BuildCall(c[1], c[2], c[3], c[4]) : c \in BuildSamples}

buildFrame == <<baseVars, discVars, rpcVars, binWalk, tickWalk, roundTrip, decoding>>

Built(r) == [building EXCEPT !.pc = "done", !.inst = r.inst, !.err = r.err]

ClmmBuild ==
    /\ building.pc = "call"
    /\ building.pool.kind = "clmm"
    /\ building' = Built(ClmmBuildSwapInstructions(building.pool, building.inputMint,
                                                   building.amountIn, building.minOut))
    /\ UNCHANGED buildFrame

PumpBuild ==
    /\ building.pc = "call"
    /\ building.pool.kind = "pump"
    /\ building' = Built(PumpBuildSwapInstructions(building.pool, building.inputMint,
                                                   building.amountIn, building.minOut))
    /\ UNCHANGED buildFrame

NextBuild == ClmmBuild \/ PumpBuild

SpecBuild == InitBuild /\ [][NextBuild]_vars

\* a CLMM instruction was built
ClmmBuilt == building.pc = "done" /\ building.pool.kind = "clmm" /\ building.err = NoError

\* the tick arrays as stated: the array of the current tick, then the next
\* initialized array in the direction when there is one
StatedTickArrays(pool, zeroForOne) ==
    LET next == nextInitializedTickArray(pool.TickCurrent, pool.TickSpacing, zeroForOne,
                                         pool.TickArrayBitmap)
    IN  <<TickArrayMeta(getTickArrayStartIndexByTick(pool.TickCurrent, pool.TickSpacing))>>
        \o (IF next.found THEN <<TickArrayMeta(next.index)>> ELSE <<>>)

\* C22: a built CLMM instruction lists 16 fixed accounts, then the bitmap
\* extension account, then the current tick array and, when one exists, the
\* next initialized tick array in the swap direction.
C22_ClmmAccountList ==
    ClmmBuilt =>
        LET metas == building.inst.accounts
        IN  /\ Len(metas) >= 17
            /\ \A i \in 1..16 : metas[i].kind = "fixed"
            /\ metas[17] = ExBitmapMeta
            /\ SubSeq(metas, 18, Len(metas))
                   = StatedTickArrays(building.pool,
                                      building.inputMint = building.pool.TokenMint0)

\* a BuildSwapInstructions call on a CLMM pool has returned
ClmmCalled == building.pc = "done" /\ building.pool.kind = "clmm"

\* floor(tick / (spacing * 60)): the index of the tick array that holds tick
StatedArrayIndex(tick, tickSpacing) == tick \div (tickSpacing * TICK_ARRAY_SIZE)

\* C23: for a tick whose array index lies in [-512, 512) the initialization
\* test is true exactly when bit floor(tick / (spacing*60)) + 512 of the bitmap
\* is set, and that array is the one getTickArrayStartIndexByTick names.
C23_TestsArrayOfTick ==
    ClmmCalled =>
        LET pool == building.pool
            index == StatedArrayIndex(pool.TickCurrent, pool.TickSpacing)
        IN  (index >= -TICK_ARRAY_BITMAP_SIZE /\ index < TICK_ARRAY_BITMAP_SIZE) =>
                /\ getTickArrayStartIndexByTick(pool.TickCurrent, pool.TickSpacing)
                       = index * getTickCount(pool.TickSpacing)
                /\ checkTickArrayIsInitialized(pool.TickArrayBitmap, pool.TickCurrent,
                                               pool.TickSpacing)
                       <=> index \in pool.TickArrayBitmap

\* a PumpAMM instruction was built
PumpBuilt == building.pc = "done" /\ building.pool.kind = "pump" /\ building.err = NoError

\* C24: PumpAMM emits sell(BaseAmountIn = inputAmount, MinQuoteOut = minOut)
\* when the input mint is the base mint and buy(MaxQuoteIn = inputAmount,
\* BaseAmountOut = minOut) when it is the quote mint.
C24_PumpSideMatchesInput ==
    PumpBuilt =>
        IF building.inputMint = building.pool.BaseMint
        THEN building.inst = [name |-> "sell", BaseAmountIn |-> building.amountIn,
                              MinQuoteAmountOut |-> building.minOut]
        ELSE building.inst = [name |-> "buy", BaseAmountOut |-> building.minOut,
                              MaxQuoteAmountIn |-> building.amountIn]

\* C25: the is_base_input flag of a built CLMM instruction is the mode the
\* quote simulates for the same request, which is exact input for a positive
\* amount whichever mint is the input.
C25_BaseInputMatchesQuote ==
    ClmmBuilt =>
        /\ building.inst.IsBaseInput
               = NewSwap(building.pool, building.inputMint,
                         NewInt(building.amountIn)).baseInput
        /\ building.amountIn > 0 => building.inst.IsBaseInput

(***************************************************************************)
(* The collection of one GetBestPool call over its goroutines, over Spec.  *)
(***************************************************************************)
\* a goroutine stands at its send and the buffer has no room for it
Blocked(r, i) == gos[r][i].pc = "send" /\ Len(chans[r].buf) >= Len(pools)

\* C26: in every interleaving of the goroutines of a GetBestPool call no send
\* blocks, the call returns after taking exactly one result of each pool off
\* the channel, and what it returns does not depend on the order of arrival.
C26_OneResultPerPool ==
    \A r \in DOMAIN reqs :
        /\ \A i \in DOMAIN gos[r] : ~Blocked(r, i)
        /\ Done(r) =>
              /\ Len(reqs[r].received) = Len(pools)
              /\ \A i \in 1..Len(pools) :
                    /\ Cardinality({k \in DOMAIN reqs[r].received :
                                       reqs[r].received[k] = i}) = 1
                    /\ gos[r][i].pc = "done"
              /\ reqs[r].ret = AloneResult(reqs[r].tokenIn, reqs[r].amountIn)

\* a call over two pools has returned the pinned pool, whose result arrived
\* after that of the pool listed behind it
C26_Witness ==
    \E r \in DOMAIN reqs :
        /\ Done(r)
        /\ reqs[r].received = <<2, 1>>
        /\ reqs[r].ret.err = NoError
        /\ reqs[r].ret.pool = 1

(***************************************************************************)
(* What a DLMM quote leaves in the pool record, over SpecWalk.             *)
(***************************************************************************)
\* C27: when MeteoraDlmmPool.Quote has returned, with a result or with any
\* error, the pool's active bin id is the one it had before the call.
C27_ActiveIdRestored ==
    (binWalk.pc = "call" /\ WalkDone) => binWalk.pool.activeId = binWalk.pool.orgActiveId

\* the references as stated, over unbounded integers
StatedReferences(pool) ==
    LET elapsed == pool.Clock.UnixTimestamp - pool.vParameters.lastUpdateTimestamp
    IN  IF elapsed < pool.parameters.filterPeriod THEN pool.vParameters
        ELSE IF elapsed < pool.parameters.decayPeriod
        THEN [pool.vParameters EXCEPT
                 !.indexReference = pool.activeId,
                 !.volatilityReference =
                     NDiv(NMul(pool.vParameters.volatilityAccumulator,
                               pool.parameters.reductionFactor), FromInt(BasisPointMax))]
        ELSE [pool.vParameters EXCEPT !.indexReference = pool.activeId,
                                      !.volatilityReference = <<>>]

\* the prologue of a quote has run and passed the gate
ReferencesUpdated == binWalk.w.pc = "start" /\ binWalk'.w.pc = "outer"

\* C29: UpdateReferences leaves the references alone inside the filter
\* period, sets them to the active id and floor(accumulator * reduction /
\* BASIS_POINT_MAX) inside the decay period, the product taken without
\* wrap-around, and to the active id and 0 past it.
C29_ReferencesAsStated ==
    [][ReferencesUpdated => binWalk'.pool.vParameters = StatedReferences(binWalk.pool)]_vars

(***************************************************************************)
(* A CLMM quote whose fetch met an account the chain does not hold, over   *)
(* SpecSwap.                                                               *)
(***************************************************************************)
\* the Quote call has ended, by a return or by a panic
QuoteEnded == tickWalk.pc = "panic" \/ (tickWalk.pc = "call" /\ tickWalk.w.pc = "done")

Panics == {PanicNil, PanicIndex, PanicStep}

\* C28: a CLMM Quote whose batched fetch returned a null entry, for the
\* extension bitmap or for a tick array, returns an error: it does not panic
\* and does not return an amount.
C28_NullAccountIsError ==
    (QuoteEnded /\ tickWalk.nulls # NoNulls) =>
        tickWalk.w.err \notin Panics \cup {NoError}

(***************************************************************************)
(* The order of traversal within one quote: the CLMM walk over SpecSwap    *)
(* and the DLMM walk over SpecWalk, both under SpecTraverse.               *)
(***************************************************************************)
InitTraverse == InitSwap \/ InitWalk

NextTraverse == NextSwap \/ NextWalk

SpecTraverse == InitTraverse /\ [][NextTraverse]_vars

\* an iteration of the CLMM loop that went on or ended the walk
TickIterated ==
    /\ tickWalk.pc = "call" /\ tickWalk.w.pc = "loop"
    /\ tickWalk' # tickWalk
    /\ tickWalk'.w.err \notin Panics

\* the working tick and the price moved in the walk's direction or stayed
TickMonotone ==
    IF tickWalk.w.zeroForOne
    THEN /\ tickWalk'.w.tick <= tickWalk.w.tick
         /\ LE(tickWalk'.w.sqrtPriceX64, tickWalk.w.sqrtPriceX64)
    ELSE /\ tickWalk'.w.tick >= tickWalk.w.tick
         /\ LE(tickWalk.w.sqrtPriceX64, tickWalk'.w.sqrtPriceX64)

\* a pass of the DLMM walk that changed the active bin while the walk went on
BinAdvanced ==
    /\ binWalk.pc = "call" /\ binWalk.w.pc \in {"outer", "inner"}
    /\ binWalk'.w.pc # "done" \/ binWalk'.w.err # NoError
    /\ binWalk'.pool.activeId # binWalk.pool.activeId

BinMovedByOne ==
    binWalk'.pool.activeId
        = binWalk.pool.activeId + (IF binWalk.w.swapForY THEN -1 ELSE 1)

\* C30: from one iteration to the next a zero-for-one CLMM walk never raises
\* its working tick or its sqrt price (a one-for-zero walk never lowers them),
\* and every advance of a DLMM walk moves the active bin id by exactly one in
\* the swap direction.
C30_TraversalMonotone ==
    [][(TickIterated => TickMonotone) /\ (BinAdvanced => BinMovedByOne)]_vars

=============================================================================
